---- MODULE Spec2Model ----
(***************************************************************************)
(* Email ingestion and heuristic classification pipeline of                *)
(* backend/app.py: the EmailProcessor classifier functions and the         *)
(* process_emails handler with its mail-server session and SQLite store.   *)
(* Text is a TLA+ string; Len, SubSeq and \o act on it character by        *)
(* character.                                                              *)
(***************************************************************************)
EXTENDS Integers, Sequences, FiniteSets, TLC

VARIABLES
    settings,          \* the configuration object (config.Settings)
    mailbox,           \* mail server: the raw messages of INBOX, by sequence number
    unseen,            \* mail server: sequence numbers not flagged \Seen
    emails,            \* store: committed rows of table emails
    wlock,             \* store: the call whose connection holds the write lock, 0 if none
    now,               \* the wall clock, in ticks
    request,           \* per call: the HTTP request (account_id, limit)
    pc,                \* per call: position in process_emails
    limit,             \* per call: local limit
    conn,              \* per call: state of the store connection
    written,           \* per call: rows upserted through the connection, in order
    imap,              \* per call: state of the mail-server session
    messages,          \* per call: the ids the UNSEEN search returned
    email_ids,         \* per call: ids selected from the search result
    idx,               \* per call: position of the loop in email_ids
    fetched,           \* per call: ids passed to imap.fetch, in order
    cur,               \* per call: locals of the loop body for the current message
    processed_emails,  \* per call: the list processed_emails
    skipped,           \* per call: messages logged as skipped, with the failing stage
    response,          \* per call: what the caller received
    call               \* the last direct call of an EmailProcessor method

vars == <<settings, mailbox, unseen, emails, wlock, now, request, pc, limit, conn,
          written, imap, messages, email_ids, idx, fetched, cur, processed_emails, skipped,
          response, call>>

\* ------------------------------------------------------------------ text

Min(a, b) == IF a <= b THEN a ELSE b
Max(a, b) == IF a >= b THEN a ELSE b

\* s[i] of Python (1-based here), "" outside the string
Ch(s, i) == IF i >= 1 /\ i <= Len(s) THEN SubSeq(s, i, i) ELSE ""

\* s[:n] of Python for n >= 0
SliceTo(s, n) == SubSeq(s, 1, Min(Max(n, 0), Len(s)))

\* s[p:q] with 1-based inclusive p and exclusive q
Sub(s, p, q) == SubSeq(s, p, q - 1)

\* s[p:].startswith(t)
StartsWith(s, p, t) ==
    /\ p + Len(t) - 1 <= Len(s)
    /\ SubSeq(s, p, p + Len(t) - 1) = t

\* t in s
Contains(t, s) == \E p \in 1..(Len(s) - Len(t) + 1) : StartsWith(s, p, t)

UpperCase == <<"A","B","C","D","E","F","G","H","I","J","K","L","M",
               "N","O","P","Q","R","S","T","U","V","W","X","Y","Z">>
LowerCase == <<"a","b","c","d","e","f","g","h","i","j","k","l","m",
               "n","o","p","q","r","s","t","u","v","w","x","y","z">>
Digits == {"0","1","2","3","4","5","6","7","8","9"}
Letters == {LowerCase[i] : i \in 1..26} \cup {UpperCase[i] : i \in 1..26}
Whitespace == {" ", "\t", "\n", "\r", "\f"}
WordChars == Letters \cup Digits \cup {"_"}

LowerCh(c) ==
    IF \E i \in 1..26 : UpperCase[i] = c
    THEN LowerCase[CHOOSE i \in 1..26 : UpperCase[i] = c]
    ELSE c

\* the characters a..b of s in lower case, by halves
RECURSIVE LowerRange(_, _, _)
LowerRange(s, a, b) ==
    IF a > b THEN ""
    ELSE IF a = b THEN LowerCh(Ch(s, a))
    ELSE LowerRange(s, a, (a + b) \div 2) \o LowerRange(s, (a + b) \div 2 + 1, b)

\* str.lower()
Lower(s) == LowerRange(s, 1, Len(s))

\* the least element of a non-empty set of integers
FirstOf(S) == CHOOSE x \in S : \A y \in S : x <= y

\* first position >= p whose character is not in cls (Len(s)+1 if none)
RECURSIVE RunEnd(_, _, _)
RunEnd(s, p, cls) ==
    IF p <= Len(s) /\ Ch(s, p) \in cls THEN RunEnd(s, p + 1, cls) ELSE p

\* first position >= p whose character is in stop (Len(s)+1 if none)
RECURSIVE StopAt(_, _, _)
StopAt(s, p, stop) ==
    IF p <= Len(s) /\ Ch(s, p) \notin stop THEN StopAt(s, p + 1, stop) ELSE p

RECURSIVE LStrip(_)
LStrip(s) == IF Len(s) > 0 /\ Ch(s, 1) \in Whitespace THEN LStrip(Tail(s)) ELSE s

RECURSIVE RStrip(_)
RStrip(s) ==
    IF Len(s) > 0 /\ Ch(s, Len(s)) \in Whitespace
    THEN RStrip(SubSeq(s, 1, Len(s) - 1)) ELSE s

\* str.strip()
Strip(s) == LStrip(RStrip(s))

\* sep.join(items)
RECURSIVE Join(_, _)
Join(sep, items) ==
    IF Len(items) = 0 THEN ""
    ELSE IF Len(items) = 1 THEN items[1]
    ELSE items[1] \o sep \o Join(sep, Tail(items))

\* items[:n] of a list
Take(items, n) == SubSeq(items, 1, Min(Max(n, 0), Len(items)))

Range(f) == {f[i] : i \in DOMAIN f}

RECURSIVE Perms(_)
Perms(S) ==
    IF S = {} THEN {<<>>}
    ELSE UNION {{<<x>> \o p : p \in Perms(S \ {x})} : x \in S}

\* ------------------------------------------------------------ classifier

categories == <<
    [name |-> "urgent",     keywords |-> <<"urgent", "asap", "immediately", "deadline", "critical">>],
    [name |-> "meeting",    keywords |-> <<"meeting", "call", "conference", "zoom", "teams">>],
    [name |-> "project",    keywords |-> <<"project", "task", "deliverable", "milestone">>],
    [name |-> "invoice",    keywords |-> <<"invoice", "payment", "billing", "receipt">>],
    [name |-> "personal",   keywords |-> <<"personal", "family", "friend">>],
    [name |-> "newsletter", keywords |-> <<"newsletter", "unsubscribe", "marketing">>],
    [name |-> "support",    keywords |-> <<"support", "help", "issue", "problem", "bug">>] >>

\* sum(1 for keyword in keywords if keyword in text)
\* fault: one point for a list with a keyword in the text, however many match
KeywordScoreAny(keywords, text) ==
    IF \E k \in DOMAIN keywords : Contains(keywords[k], text) THEN 1 ELSE 0

\* sum(1 for keyword in keywords if keyword in text)
KeywordScore(keywords, text) ==
    Cardinality({k \in DOMAIN keywords : Contains(keywords[k], text)})

\* fault: the last key of the greatest score
LastMax(score, best) ==
    CHOOSE k \in DOMAIN score :
        score[k] = best /\ \A j \in DOMAIN score : j > k => score[j] < best

\* max(category_scores, key=category_scores.get): the first key, in the order
\* of the table, whose score is the greatest
FirstMax(score, best) ==
    CHOOSE k \in DOMAIN score : score[k] = best /\ \A j \in 1..(k - 1) : score[j] < best

\* fault: the first key of the greatest score even when that score is 0
CategoryOfNoDefault(score, best) == categories[FirstMax(score, best)].name

\* lines 647-650
CategoryOf(score, best) ==
    IF best = 0 THEN "general" ELSE categories[FirstMax(score, best)].name

CategoryOfScores(score) ==
    CategoryOf(score, CHOOSE m \in Range(score) : \A k \in DOMAIN score : score[k] <= m)

CategoryScores(text) ==
    [k \in DOMAIN categories |-> KeywordScore(categories[k].keywords, text)]

categorize_email(content, subject) ==
    CategoryOfScores(CategoryScores(Lower(
        SliceTo(content, settings.MAX_EMAIL_CONTENT_LENGTH) \o " "
        \o SliceTo(subject, settings.MAX_SUBJECT_LENGTH))))

positive_words == <<"thank", "great", "excellent", "good", "pleased", "happy">>
negative_words == <<"urgent", "problem", "issue", "concern", "disappointed", "angry">>

SentimentOf(positive_score, negative_score) ==
    IF positive_score > negative_score THEN "positive"
    ELSE IF negative_score > positive_score THEN "negative"
    ELSE "neutral"

SentimentOfLower(content_lower) ==
    SentimentOf(KeywordScore(positive_words, content_lower),
                KeywordScore(negative_words, content_lower))

analyze_sentiment(content) == SentimentOfLower(Lower(content))

base_priority(category) ==
    CASE category = "urgent" -> 5
      [] category = "support" -> 4
      [] category = "meeting" -> 4
      [] category = "project" -> 3
      [] category = "invoice" -> 3
      [] category = "personal" -> 2
      [] category = "newsletter" -> 1
      [] category = "general" -> 2
      [] OTHER -> 2

\* fault: the sum without the clamp of line 722
PriorityUnclamped(category, sentiment, has_deadlines) ==
    base_priority(category)
      + (IF sentiment = "negative" THEN 1 ELSE 0)
      + (IF has_deadlines THEN 1 ELSE 0)

calculate_priority(category, sentiment, has_deadlines) ==
    Min(base_priority(category)
          + (IF sentiment = "negative" THEN 1 ELSE 0)
          + (IF has_deadlines THEN 1 ELSE 0),
        5)

\* One regular expression of extract_action_items:
\*   (?:t1|t2|...)<lit>\s{min_ws,}([^<stop>]*)
action_patterns == <<
    [triggers |-> <<"please", "can you", "could you", "need to", "should", "must", "have to">>,
     lit |-> "", min_ws |-> 1, stop |-> {".", "!", "?"}],
    [triggers |-> <<"action item", "todo", "task">>,
     lit |-> ":", min_ws |-> 0, stop |-> {".", "!", "?", "\n"}],
    [triggers |-> <<"follow up", "complete", "finish", "deliver">>,
     lit |-> "", min_ws |-> 1, stop |-> {".", "!", "?"}] >>

NoMatch == [ok |-> FALSE, end |-> 0, text |-> ""]

\* a match whose group is s[q:e]
Capture(s, q, e) == [ok |-> TRUE, end |-> e, text |-> Sub(s, q, e)]

\* the capture from q, after whitespace that began at w
ActionCapture(s, w, q, pat) ==
    IF q - w < pat.min_ws THEN NoMatch ELSE Capture(s, q, StopAt(s, q, pat.stop))

\* the first of the triggers, in the order of the pattern, that matches at p; 0 if none
FirstTrigger(s, p, triggers) ==
    IF \A k \in DOMAIN triggers : ~StartsWith(s, p, triggers[k]) THEN 0
    ELSE CHOOSE k \in DOMAIN triggers :
             /\ StartsWith(s, p, triggers[k])
             /\ \A j \in 1..(k - 1) : ~StartsWith(s, p, triggers[j])

ActionAfterTrigger(s, w, pat) == ActionCapture(s, w, RunEnd(s, w, Whitespace), pat)

ActionTriggered(s, p, pat, k) ==
    IF k = 0 \/ ~StartsWith(s, p + Len(pat.triggers[k]), pat.lit) THEN NoMatch
    ELSE ActionAfterTrigger(s, p + Len(pat.triggers[k]) + Len(pat.lit), pat)

\* The match of an action pattern that starts at position p, if there is one:
\* the first trigger in order, the whole run of whitespace, then the capture
\* up to the first stop character.
ActionMatchAt(s, p, pat) == ActionTriggered(s, p, pat, FirstTrigger(s, p, pat.triggers))

\* re.findall(pattern, s): the captures of the non-overlapping matches, left to right
\* the scan resumes at the end of each match
RECURSIVE ActionFindAll(_, _, _)
ActionFindFrom(s, pat, m) == <<m.text>> \o ActionFindAll(s, m.end, pat)

ActionFindNext(s, pat, starts) ==
    IF starts = {} THEN <<>> ELSE ActionFindFrom(s, pat, ActionMatchAt(s, FirstOf(starts), pat))

ActionFindAll(s, p, pat) ==
    ActionFindNext(s, pat, {q \in p..Len(s) : ActionMatchAt(s, q, pat).ok})

\* fault: the stripped match is kept when it is empty
KeepEmpty(stripped) == <<stripped>>

\* [match.strip() for match in matches if match.strip()]
NonEmpty(stripped) == IF stripped = "" THEN <<>> ELSE <<stripped>>

RECURSIVE StripNonEmpty(_)
StripNonEmpty(matches) ==
    IF Len(matches) = 0 THEN <<>>
    ELSE NonEmpty(Strip(matches[1])) \o StripNonEmpty(Tail(matches))

ActionMatchesLower(s) ==
    StripNonEmpty(ActionFindAll(s, 1, action_patterns[1])
                  \o ActionFindAll(s, 1, action_patterns[2])
                  \o ActionFindAll(s, 1, action_patterns[3]))

\* the list actions before deduplication
ActionMatches(content) == ActionMatchesLower(Lower(content))

\* list(set(actions))[:5]: the iteration order of a set of strings is fixed by
\* the interpreter's string hashing, not by the program, so the result is any
\* one of these lists.
extract_action_items(content) ==
    {Take(order, 5) : order \in Perms(Range(ActionMatches(content)))}

\* \w+day starting at q, greedy with backtracking: the end (exclusive) of the
\* longest prefix of the word run that ends in "day" after at least one
\* character; 0 if none.
WordDayEnd(s, q) ==
    LET e == RunEnd(s, q, WordChars)
        ks == {k \in 1..(e - q - 3) : Sub(s, q + k, q + k + 3) = "day"}
    IN  IF ks = {} THEN 0
        ELSE q + (CHOOSE k \in ks : \A j \in ks : j <= k) + 3

\* \d{1,2}[/\-]\d{1,2}[/\-]\d{2,4} starting at q; 0 if no match
DateEnd(s, q) ==
    LET d1 == RunEnd(s, q, Digits) - q
        q2 == q + d1 + 1
        d2 == RunEnd(s, q2, Digits) - q2
        q3 == q2 + d2 + 1
        d3 == RunEnd(s, q3, Digits) - q3
    IN  IF /\ d1 \in {1, 2} /\ Ch(s, q + d1) \in {"/", "-"}
           /\ d2 \in {1, 2} /\ Ch(s, q2 + d2) \in {"/", "-"}
           /\ d3 >= 2
        THEN q3 + Min(d3, 4) ELSE 0

\* \d{1,2}\s+\w+ starting at q; 0 if no match
NumWordEnd(s, q) ==
    LET d == RunEnd(s, q, Digits) - q
        w == RunEnd(s, q + d, Whitespace)
        e == RunEnd(s, w, WordChars)
    IN  IF d \in {1, 2} /\ w > q + d /\ e > w THEN e ELSE 0

\* \w+\s+\d{1,2} starting at q; 0 if no match
WordNumEnd(s, q) ==
    LET a == RunEnd(s, q, WordChars)
        w == RunEnd(s, a, Whitespace)
        d == RunEnd(s, w, Digits) - w
    IN  IF a > q /\ w > a /\ d >= 1 THEN w + Min(d, 2) ELSE 0

\* the first alternative of the group that matches at q; 0 if none
FirstEnd(ends) ==
    IF \A k \in DOMAIN ends : ends[k] = 0 THEN 0
    ELSE ends[CHOOSE k \in DOMAIN ends : ends[k] # 0 /\ \A j \in 1..(k - 1) : ends[j] = 0]

\* (?:t1|t2|...)\s+ at p: the position after the trigger and the whole run of
\* whitespace; 0 if no trigger matches at p or no whitespace follows it
NonEmptyRun(w, q) == IF q = w THEN 0 ELSE q

WhitespaceEnd(s, w) == NonEmptyRun(w, RunEnd(s, w, Whitespace))

TriggerEndOf(s, p, triggers, k) ==
    IF k = 0 THEN 0 ELSE WhitespaceEnd(s, p + Len(triggers[k]))

TriggerEnd(s, p, triggers) == TriggerEndOf(s, p, triggers, FirstTrigger(s, p, triggers))

GroupMatch(s, q, e) == IF q = 0 \/ e = 0 THEN NoMatch ELSE Capture(s, q, e)

\* (?:by|due|deadline|before)\s+(\w+day|\d{1,2}[/\-]\d{1,2}[/\-]\d{2,4}|\d{1,2}\s+\w+|\w+\s+\d{1,2})
DeadlineGroupA(s, q) ==
    IF q = 0 THEN NoMatch
    ELSE GroupMatch(s, q, FirstEnd(<<WordDayEnd(s, q), DateEnd(s, q),
                                     NumWordEnd(s, q), WordNumEnd(s, q)>>))

DeadlineMatchA(s, p) ==
    DeadlineGroupA(s, TriggerEnd(s, p, <<"by", "due", "deadline", "before">>))

\* (\w+day)\s+(?:at|by)\s+(\d{1,2}:\d{2}) at p: the word run from p ends in
\* "day"; the two groups are joined with a space.
DeadlineMatchB(s, p) ==
    LET a == RunEnd(s, p, WordChars)
        w == RunEnd(s, a, Whitespace)
        t == IF StartsWith(s, w, "at") \/ StartsWith(s, w, "by") THEN w + 2 ELSE 0
        v == RunEnd(s, t, Whitespace)
        h == RunEnd(s, v, Digits) - v
        c == v + h
        m == RunEnd(s, c + 1, Digits) - (c + 1)
    IN  IF /\ a - p >= 4 /\ Sub(s, a - 3, a) = "day"
           /\ w > a /\ t # 0 /\ v > t
           /\ h \in {1, 2} /\ Ch(s, c) = ":" /\ m >= 2
        THEN [ok |-> TRUE, end |-> c + 3, text |-> Sub(s, p, a) \o " " \o Sub(s, v, c + 3)]
        ELSE NoMatch

\* (?:end of|eod)\s+(\w+day|\w+)
WordEnd(s, q) == NonEmptyRun(q, RunEnd(s, q, WordChars))

DeadlineGroupC(s, q) ==
    IF q = 0 THEN NoMatch
    ELSE GroupMatch(s, q, FirstEnd(<<WordDayEnd(s, q), WordEnd(s, q)>>))

DeadlineMatchC(s, p) == DeadlineGroupC(s, TriggerEnd(s, p, <<"end of", "eod">>))

DeadlineMatchAt(s, p, pattern) ==
    CASE pattern = 1 -> DeadlineMatchA(s, p)
      [] pattern = 2 -> DeadlineMatchB(s, p)
      [] pattern = 3 -> DeadlineMatchC(s, p)

\* re.findall(pattern, s), as for the action patterns
RECURSIVE DeadlineFindAll(_, _, _)
DeadlineFindFrom(s, pattern, m) == <<m.text>> \o DeadlineFindAll(s, m.end, pattern)

DeadlineFindNext(s, pattern, starts) ==
    IF starts = {} THEN <<>>
    ELSE DeadlineFindFrom(s, pattern, DeadlineMatchAt(s, FirstOf(starts), pattern))

DeadlineFindAll(s, p, pattern) ==
    DeadlineFindNext(s, pattern, {q \in p..Len(s) : DeadlineMatchAt(s, q, pattern).ok})

\* fault: the matches of the last pattern first
DeadlineTextsLastFirst(s) ==
    DeadlineFindAll(s, 1, 3) \o DeadlineFindAll(s, 1, 2) \o DeadlineFindAll(s, 1, 1)

\* the matched texts before the cap, in pattern order then scan order
DeadlineTextsLower(s) ==
    DeadlineFindAll(s, 1, 1) \o DeadlineFindAll(s, 1, 2) \o DeadlineFindAll(s, 1, 3)

DeadlineTexts(content) == DeadlineTextsLower(Lower(content))

\* datetime.isoformat() of the clock reading t (t seconds after an origin)
isoformat(t) == "2024-01-01T00:00:" \o (IF t < 10 THEN "0" ELSE "") \o ToString(t)

deadline_priority(deadline_text) ==
    IF \E w \in {"urgent", "asap", "immediately"} : Contains(w, deadline_text)
    THEN "high" ELSE "medium"

\* extract_deadlines run when the clock reads t
Deadline(deadline_text, t) ==
    [text |-> deadline_text, extracted_at |-> isoformat(t),
     priority |-> deadline_priority(deadline_text)]

Deadlines(texts, t) == [k \in DOMAIN texts |-> Deadline(texts[k], t)]

extract_deadlines(content, t) == Take(Deadlines(DeadlineTexts(content), t), 3)

templates(category) ==
    CASE category = "urgent" ->
           "Thank you for your urgent message. I understand the importance and will prioritize this accordingly."
      [] category = "meeting" ->
           "Thank you for the meeting invitation/request. I'll check my calendar and get back to you shortly."
      [] category = "support" ->
           "Thank you for reaching out. I'll look into this issue and provide an update as soon as possible."
      [] category = "invoice" ->
           "Thank you for the invoice/billing information. I'll process this accordingly."
      [] category = "project" ->
           "Thank you for the project update. I'll review the details and respond with any questions or next steps."
      [] OTHER ->
           "Thank you for your email. I'll review this and get back to you soon."

\* fault: every action item is listed
generate_response_unbounded(category, sentiment, action_items) ==
    IF ~settings.ENABLE_RESPONSE_GENERATION THEN ""
    ELSE templates(category)
         \o (IF Len(action_items) = 0 THEN ""
             ELSE "\n\nI note the following action items:\n"
                  \o Join("\n", [k \in DOMAIN action_items |-> "- " \o action_items[k]]))

generate_response_template(category, sentiment, action_items) ==
    IF ~settings.ENABLE_RESPONSE_GENERATION THEN ""
    ELSE templates(category)
         \o (IF Len(action_items) = 0 THEN ""
             ELSE "\n\nI note the following action items:\n"
                  \o Join("\n", [k \in DOMAIN Take(action_items, 3) |-> "- " \o action_items[k]]))

\* ------------------------------------------------- fingerprint and records

\* hashlib.md5(text.encode()).hexdigest(): the digest is a function of the text
\* alone, and is taken to be injective on the texts of the model.
md5_hexdigest(text) == "md5(" \o text \o ")"

\* fault: the digest of the sender, the subject and the whole body
email_hash_whole(sender, subject, content) == md5_hexdigest(sender \o subject \o content)

\* md5(f"{sender}{subject}{content[:100]}")
email_hash(sender, subject, content) ==
    md5_hexdigest(sender \o subject \o SliceTo(content, 100))

JsonEscapeCh(c) ==
    CASE c = "\"" -> "\\\""
      [] c = "\\" -> "\\\\"
      [] c = "\n" -> "\\n"
      [] c = "\r" -> "\\r"
      [] c = "\t" -> "\\t"
      [] c = "\f" -> "\\f"
      [] OTHER -> c

\* the characters a..b of s escaped, by halves
RECURSIVE JsonEscape(_, _, _)
JsonEscape(s, a, b) ==
    IF a > b THEN ""
    ELSE IF a = b THEN JsonEscapeCh(Ch(s, a))
    ELSE JsonEscape(s, a, (a + b) \div 2) \o JsonEscape(s, (a + b) \div 2 + 1, b)

JsonString(s) == "\"" \o JsonEscape(s, 1, Len(s)) \o "\""

\* json.dumps of a list of strings
json_dumps_strings(items) ==
    "[" \o Join(", ", [k \in DOMAIN items |-> JsonString(items[k])]) \o "]"

\* json.dumps of the list of deadline dicts
json_dumps_deadlines(deadlines) ==
    "[" \o Join(", ", [k \in DOMAIN deadlines |->
            "{\"text\": " \o JsonString(deadlines[k].text)
            \o ", \"extracted_at\": " \o JsonString(deadlines[k].extracted_at)
            \o ", \"priority\": " \o JsonString(deadlines[k].priority) \o "}"]) \o "]"

\* content[:500] + "..." if len(content) > 500 else content
\* fault: the response carries the whole content
ResponseContentWhole(content) == content

ResponseContent(content) ==
    IF Len(content) > 500 THEN SliceTo(content, 500) \o "..." ELSE content

\* fault: a plain INSERT that keeps the earlier row of the same id
InsertOnly(table, row) == table \cup {row}

\* INSERT OR REPLACE INTO emails: id is the primary key
InsertOrReplace(table, row) == {r \in table : r.id # row.id} \cup {row}

\* COMMIT of the rows a connection wrote, in the order it wrote them
RECURSIVE ApplyWrites(_, _)
ApplyWrites(table, rows) ==
    IF Len(rows) = 0 THEN table
    ELSE ApplyWrites(InsertOrReplace(table, rows[1]), Tail(rows))

\* ------------------------------------------------------------ normalizer

\* A header of a parsed message: absent, a str, or (raw 8-bit bytes in the
\* header line) an email.header.Header object.
NoHeader == [type |-> "none", value |-> ""]
StrHeader(v) == [type |-> "str", value |-> v]
RawHeader == [type |-> "Header", value |-> ""]

\* A payload is a sequence of segments: valid UTF-8 text, or an invalid byte.
Text(t) == [valid |-> TRUE, text |-> t]
BadByte == [valid |-> FALSE, text |-> ""]

\* bytes.decode('utf-8', errors='ignore')
RECURSIVE decode(_)
decode(payload) ==
    IF Len(payload) = 0 THEN ""
    ELSE (IF payload[1].valid THEN payload[1].text ELSE "") \o decode(Tail(payload))

\* email_message[name] or fallback: a missing or empty header gives the fallback
HeaderOr(header, fallback) ==
    IF header.type = "none" \/ (header.type = "str" /\ header.value = "") THEN fallback
    ELSE header.value

\* subject[:n] raises TypeError on a Header object
Sliceable(header) == header.type # "Header"

\* the payload of the first part, in walk order, of type text/plain
FirstPlain(parts) ==
    LET plain == {k \in DOMAIN parts : parts[k].content_type = "text/plain"}
    IN  IF plain = {} THEN ""
        ELSE decode(parts[CHOOSE k \in plain : \A j \in plain : k <= j].payload)

\* line 934: the subject before it is cut
RawSubject(msg) == HeaderOr(msg.Subject, "No Subject")

\* line 935
RawSender(msg) == HeaderOr(msg.From, "Unknown Sender")

\* lines 942-949: the body before it is cut
RawBody(msg) ==
    IF msg.multipart THEN FirstPlain(msg.parts) ELSE decode(msg.parts[1].payload)

\* fault: subject and body passed on at their full length
NormalizeUncut(msg) ==
    [subject |-> RawSubject(msg),
     sender  |-> RawSender(msg),
     sender_is_str |-> msg.From.type # "Header",
     content |-> RawBody(msg)]

\* lines 934-953: subject, sender and content of a parsed message
Normalize(msg) ==
    [subject |-> SliceTo(RawSubject(msg), settings.MAX_SUBJECT_LENGTH),
     sender  |-> RawSender(msg),
     sender_is_str |-> msg.From.type # "Header",
     content |-> SliceTo(RawBody(msg), settings.MAX_EMAIL_CONTENT_LENGTH)]

\* ----------------------------------------------------------- the handler

Calls == {1, 2}

\* rows of table email_accounts: the ids that exist
email_accounts == {1}

\* configured values of the model
MaxBatchSize == 2
DefaultBatchSize == 1
MaxSubjectLength == 4
MaxContentLength == 12

\* a second configured body length, past the 500 characters of line 969
LongContentLength == 501

\* the clock stops at MaxClock
MaxClock == 1

\* callers pass no limit, or one in -LimitsBelow..LimitsAbove
LimitsBelow == 1
LimitsAbove == 3

Limits == (0 - LimitsBelow)..LimitsAbove

\* a request carries an account id and, when has_limit, the query parameter limit
Requests ==
    [account_id : {1, 2}, has_limit : {TRUE}, limit : Limits]
    \cup [account_id : {1, 2}, has_limit : {FALSE}, limit : {0}]

Settings(enabled, content_length) ==
    [ENABLE_EMAIL_PROCESSING |-> enabled,
     ENABLE_RESPONSE_GENERATION |-> TRUE,
     EMAIL_BATCH_SIZE |-> DefaultBatchSize,
     MAX_EMAIL_BATCH_SIZE |-> MaxBatchSize,
     MAX_EMAIL_CONTENT_LENGTH |-> content_length,
     MAX_SUBJECT_LENGTH |-> MaxSubjectLength]

\* the configurations the service starts with
Configurations ==
    {Settings(TRUE, MaxContentLength), Settings(FALSE, MaxContentLength),
     Settings(TRUE, LongContentLength)}

Part(content_type, payload) == [content_type |-> content_type, payload |-> payload]

MsgDeadline ==
    [Subject |-> StrHeader("Hi"), From |-> StrHeader("a@x"), multipart |-> FALSE,
     parts |-> <<Part("text/plain", <<Text("due friday")>>)>>]

Twice(s) == s \o s

\* 512 characters of filler sentences
Filler == Twice(Twice(Twice(Twice(Twice(Twice(" ab cde."))))))

MsgLong ==
    [Subject |-> StrHeader("Hello!"), From |-> NoHeader, multipart |-> TRUE,
     parts |-> <<Part("text/html", <<Text("<p>must go</p>")>>),
                 Part("text/plain",
                      <<Text("Please "), BadByte, Text("call me ASAP!" \o Filler)>>),
                 Part("text/plain", <<Text("zoom")>>)>>]

\* MsgLong with its body changed after the first 100 characters
MsgLongEdited ==
    [Subject |-> StrHeader("Hello!"), From |-> NoHeader, multipart |-> TRUE,
     parts |-> <<Part("text/plain",
                      <<Text("Please call me ASAP!" \o Twice(Twice(Twice(Twice(" ab cde."))))
                             \o " changed." \o Filler)>>)>>]

MsgRawSubject ==
    [Subject |-> RawHeader, From |-> StrHeader("c@x"), multipart |-> FALSE,
     parts |-> <<Part("text/plain", <<Text("hi")>>)>>]

MsgRawFrom ==
    [Subject |-> NoHeader, From |-> RawHeader, multipart |-> FALSE,
     parts |-> <<Part("text/plain", <<Text("hi")>>)>>]

\* INBOX
Inbox == <<MsgRawFrom, MsgLongEdited, MsgRawSubject, MsgLong, MsgDeadline, MsgDeadline>>

\* what is unseen at the start: all of INBOX, its last message alone, or the
\* two long messages
UnseenAtStart == {DOMAIN Inbox, {Len(Inbox)}, {2, 4}}

\* fault: the first ids of the search result instead of the last
SliceFirst(ids, start) == SubSeq(ids, 1, Min(Max(0 - start, 0), Len(ids)))

\* ids[start:] of Python, for any integer start
SliceFrom(ids, start) ==
    LET n == Len(ids)
        from == IF start < 0 THEN Max(n + start, 0) ELSE Min(start, n)
    IN  SubSeq(ids, from + 1, n)

\* the ids of a set of sequence numbers in ascending order
RECURSIVE Ascending(_)
Ascending(S) ==
    IF S = {} THEN <<>>
    ELSE LET m == CHOOSE x \in S : \A y \in S : x <= y
         IN  <<m>> \o Ascending(S \ {m})

NoResponse == [status |-> 0, detail |-> "", processed_count |-> 0, emails |-> <<>>]

NoLocals == [subject |-> "", sender |-> "", sender_is_str |-> TRUE, content |-> "",
             row |-> <<>>, processed_email |-> <<>>]

loopVars == <<messages, email_ids, idx, fetched, cur, processed_emails, skipped>>

\* raise inside the outer try: lines 1004-1006 turn every exception into a 500
Raise(c, reason) ==
    /\ pc' = [pc EXCEPT ![c] = "returned"]
    /\ response' = [response EXCEPT ![c] =
           [status |-> 500, detail |-> "Error processing emails: " \o reason,
            processed_count |-> 0, emails |-> <<>>]]

\* fault: the call goes on to the account lookup whatever the feature flag is
CallIgnoresFlag(c, r) ==
    /\ pc[c] = "idle"
    /\ request' = [request EXCEPT ![c] = r]
    /\ pc' = [pc EXCEPT ![c] = "lookup"]
    /\ limit' = [limit EXCEPT ![c] =
           Min(IF ~r.has_limit THEN settings.EMAIL_BATCH_SIZE ELSE r.limit,
               settings.MAX_EMAIL_BATCH_SIZE)]
    /\ UNCHANGED <<call, settings, mailbox, unseen, emails, wlock, now, response,
                   conn, written, imap, loopVars>>

\* lines 889-899: feature flag and batch limit
Call(c, r) ==
    /\ pc[c] = "idle"
    /\ request' = [request EXCEPT ![c] = r]
    /\ IF ~settings.ENABLE_EMAIL_PROCESSING
       THEN /\ pc' = [pc EXCEPT ![c] = "returned"]
            /\ response' = [response EXCEPT ![c] =
                   [status |-> 503, detail |-> "Email processing is disabled",
                    processed_count |-> 0, emails |-> <<>>]]
            /\ UNCHANGED limit
       ELSE /\ pc' = [pc EXCEPT ![c] = "lookup"]
            /\ limit' = [limit EXCEPT ![c] =
                   Min(IF ~r.has_limit THEN settings.EMAIL_BATCH_SIZE
                       ELSE r.limit,
                       settings.MAX_EMAIL_BATCH_SIZE)]
            /\ UNCHANGED response
    /\ UNCHANGED <<call, settings, mailbox, unseen, emails, wlock, now,
                   conn, written, imap, loopVars>>

\* lines 901-912: open the store connection and read the account
Lookup(c) ==
    /\ pc[c] = "lookup"
    /\ conn' = [conn EXCEPT ![c] = "open"]
    /\ IF request[c].account_id \in email_accounts
       THEN pc' = [pc EXCEPT ![c] = "connect"] /\ UNCHANGED response
       ELSE Raise(c, "404: Account not found")
    /\ UNCHANGED <<call, settings, mailbox, unseen, emails, wlock, now, request,
                   limit, written, imap, loopVars>>

\* lines 914-917: IMAP4_SSL(imap_server) and the socket timeout
Connect(c) ==
    /\ pc[c] = "connect"
    /\ \E ok \in BOOLEAN :
         IF ok
         THEN /\ pc' = [pc EXCEPT ![c] = "login"]
              /\ imap' = [imap EXCEPT ![c] = "NONAUTH"]
              /\ UNCHANGED response
         ELSE Raise(c, "connection failed") /\ UNCHANGED imap
    /\ UNCHANGED <<call, settings, mailbox, unseen, emails, wlock, now, request,
                   limit, conn, written, loopVars>>

\* line 918: imap.login raises on any answer but OK
Login(c) ==
    /\ pc[c] = "login"
    /\ \E ok \in BOOLEAN :
         IF ok
         THEN /\ pc' = [pc EXCEPT ![c] = "select"]
              /\ imap' = [imap EXCEPT ![c] = "AUTH"]
              /\ UNCHANGED response
         ELSE Raise(c, "authentication failed") /\ UNCHANGED imap
    /\ UNCHANGED <<call, settings, mailbox, unseen, emails, wlock, now, request,
                   limit, conn, written, loopVars>>

\* line 919: imap.select('INBOX'). The server answers OK or NO, or the command
\* fails (BAD, connection lost). On NO imaplib returns the status, which the
\* handler does not read, and the session stays in state AUTH.
Select(c) ==
    /\ pc[c] = "select"
    /\ \E answer \in {"OK", "NO", "BAD"} :
         CASE answer = "OK" ->
                /\ pc' = [pc EXCEPT ![c] = "search"]
                /\ imap' = [imap EXCEPT ![c] = "SELECTED"]
                /\ UNCHANGED response
           [] answer = "NO" ->
                /\ pc' = [pc EXCEPT ![c] = "search"]
                /\ UNCHANGED <<imap, response>>
           [] answer = "BAD" ->
                Raise(c, "SELECT command error") /\ UNCHANGED imap
    /\ UNCHANGED <<call, settings, mailbox, unseen, emails, wlock, now, request,
                   limit, conn, written, loopVars>>

\* fault: a SEARCH that is answered in any session state
SearchAnyState(c) ==
    /\ pc[c] = "search"
    /\ messages' = [messages EXCEPT ![c] = Ascending(unseen)]
    /\ email_ids' = [email_ids EXCEPT ![c] = SliceFrom(Ascending(unseen), -limit[c])]
    /\ idx' = [idx EXCEPT ![c] = 1]
    /\ pc' = [pc EXCEPT ![c] =
           IF Len(SliceFrom(Ascending(unseen), -limit[c])) = 0 THEN "commit" ELSE "fetch"]
    /\ UNCHANGED <<call, settings, mailbox, unseen, emails, wlock, now, request, limit, conn,
                   written, imap, fetched, cur, processed_emails, skipped, response>>

\* lines 921-925: search UNSEEN and keep messages[0].split()[-limit:]. imaplib
\* refuses SEARCH in any state but SELECTED.
Search(c) ==
    /\ pc[c] = "search"
    /\ \E ok \in BOOLEAN :
         IF ok /\ imap[c] = "SELECTED"
         THEN LET found == Ascending(unseen)
                  ids == SliceFrom(found, -limit[c])
              IN  /\ messages' = [messages EXCEPT ![c] = found]
                  /\ email_ids' = [email_ids EXCEPT ![c] = ids]
                  /\ idx' = [idx EXCEPT ![c] = 1]
                  /\ pc' = [pc EXCEPT ![c] = IF Len(ids) = 0 THEN "commit" ELSE "fetch"]
                  /\ UNCHANGED response
         ELSE /\ Raise(c, IF imap[c] = "SELECTED" THEN "SEARCH command error"
                          ELSE "command SEARCH illegal in state AUTH")
              /\ UNCHANGED <<messages, email_ids, idx>>
    /\ UNCHANGED <<call, settings, mailbox, unseen, emails, wlock, now, request,
                   limit, conn, written, imap, fetched, cur, processed_emails, skipped>>

\* fault: a skip that also passes over the message after the failing one
ContinueSkipsNext(c, stage) ==
    /\ skipped' = [skipped EXCEPT ![c] = Append(@, [id |-> email_ids[c][idx[c]], stage |-> stage])]
    /\ idx' = [idx EXCEPT ![c] = @ + 2]
    /\ pc' = [pc EXCEPT ![c] = IF idx[c] + 2 > Len(email_ids[c]) THEN "commit" ELSE "fetch"]
    /\ cur' = [cur EXCEPT ![c] = NoLocals]

\* lines 989-991: log, skip the message, go on with the next id
Continue(c, stage) ==
    /\ skipped' = [skipped EXCEPT ![c] = Append(@, [id |-> email_ids[c][idx[c]], stage |-> stage])]
    /\ idx' = [idx EXCEPT ![c] = @ + 1]
    /\ pc' = [pc EXCEPT ![c] = IF idx[c] + 1 > Len(email_ids[c]) THEN "commit" ELSE "fetch"]
    /\ cur' = [cur EXCEPT ![c] = NoLocals]

\* lines 927-953: fetch the message (a fetch of RFC822 flags it \Seen), parse
\* it, take subject, sender and body and cut them to the configured lengths
Fetch(c) ==
    /\ pc[c] = "fetch"
    /\ LET id == email_ids[c][idx[c]]
           msg == mailbox[id]
       IN  /\ fetched' = [fetched EXCEPT ![c] = Append(@, id)]
           /\ \E ok \in BOOLEAN :
                IF ~ok
                THEN Continue(c, "fetch") /\ UNCHANGED unseen
                ELSE /\ unseen' = unseen \ {id}
                     /\ IF ~Sliceable(msg.Subject)
                        THEN Continue(c, "normalize")
                        ELSE /\ cur' = [cur EXCEPT ![c] =
                                    Normalize(msg) @@ [row |-> <<>>, processed_email |-> <<>>]]
                             /\ pc' = [pc EXCEPT ![c] = "classify"]
                             /\ UNCHANGED <<idx, skipped>>
    /\ UNCHANGED <<call, settings, mailbox, emails, wlock, now, request, limit,
                   conn, written, imap, messages, email_ids, processed_emails, response>>

\* lines 965-976: the ProcessedEmail returned to the caller
ProcessedEmail(id, subject, sender, content, category, priority, action_items, deadlines, sentiment, suggested_response) ==
    [id |-> id, subject |-> subject, sender |-> sender,
     content |-> ResponseContent(content), category |-> category,
     priority |-> priority, action_items |-> action_items, deadlines |-> deadlines,
     sentiment |-> sentiment, suggested_response |-> suggested_response]

\* lines 979-985: the row bound to INSERT OR REPLACE, stamped when it is written
EmailRow(id, subject, sender, content, category, priority, processed_at, action_items, deadlines, sentiment) ==
    [id |-> id, subject |-> subject, sender |-> sender, content |-> content,
     category |-> category, priority |-> priority, processed_at |-> processed_at,
     action_items |-> json_dumps_strings(action_items),
     deadlines |-> json_dumps_deadlines(deadlines), sentiment |-> sentiment]

\* lines 962-985, from the results of the classifiers
Records(id, subject, sender, content, category, action_items, deadlines, sentiment, priority) ==
    [processed_email |->
         ProcessedEmail(id, subject, sender, content, category, priority, action_items,
                        deadlines, sentiment,
                        generate_response_template(category, sentiment, action_items)),
     row |-> EmailRow(id, subject, sender, content, category, priority, "",
                      action_items, deadlines, sentiment)]

\* fault: the priority computed as if the message had no deadline
ProcessNoDeadlines(subject, sender, content, category, action_items, deadlines, sentiment) ==
    Records(email_hash(sender, subject, content), subject, sender, content, category,
            action_items, deadlines, sentiment,
            calculate_priority(category, sentiment, FALSE))

\* lines 956-985 for one choice of the order of the action items
Process(subject, sender, content, category, action_items, deadlines, sentiment) ==
    Records(email_hash(sender, subject, content), subject, sender, content, category,
            action_items, deadlines, sentiment,
            calculate_priority(category, sentiment, Len(deadlines) > 0))

\* fault: the sentiment of the body and the subject together
ClassifiedWithSubject(subject, sender, content, t) ==
    {Process(subject, sender, content, categorize_email(content, subject), action_items,
             extract_deadlines(content, t), analyze_sentiment(content \o " " \o subject)) :
        action_items \in extract_action_items(content)}

\* lines 956-985 at clock reading t: one outcome for each order the action
\* items can come in
Classified(subject, sender, content, t) ==
    {Process(subject, sender, content, categorize_email(content, subject), action_items,
             extract_deadlines(content, t), analyze_sentiment(content)) :
        action_items \in extract_action_items(content)}

\* lines 955-976: fingerprint, classification, and the record for the caller.
\* ProcessedEmail rejects a sender that is not a str.
Classify(c) ==
    /\ pc[c] = "classify"
    /\ IF ~cur[c].sender_is_str
       THEN Continue(c, "build")
       ELSE /\ \E records \in Classified(cur[c].subject, cur[c].sender, cur[c].content, now) :
                 cur' = [cur EXCEPT ![c] = records @@ @]
            /\ pc' = [pc EXCEPT ![c] = "upsert"]
            /\ UNCHANGED <<idx, skipped>>
    /\ UNCHANGED <<call, settings, mailbox, unseen, emails, wlock, now, request,
                   limit, conn, written, imap, messages, email_ids, fetched,
                   processed_emails, response>>

\* fault: the loop ends at the first row written
UpsertThenCommit(c) ==
    /\ pc[c] = "upsert"
    /\ \E outcome \in {"ok", "locked", "error"} :
         CASE outcome = "ok" ->
                /\ wlock \in {0, c}
                /\ wlock' = c
                /\ written' = [written EXCEPT ![c] =
                       Append(@, [cur[c].row EXCEPT !.processed_at = isoformat(now)])]
                /\ processed_emails' = [processed_emails EXCEPT ![c] =
                       Append(@, cur[c].processed_email)]
                /\ idx' = [idx EXCEPT ![c] = @ + 1]
                /\ pc' = [pc EXCEPT ![c] = "commit"]
                /\ cur' = [cur EXCEPT ![c] = NoLocals]
                /\ UNCHANGED skipped
           [] outcome = "locked" ->
                /\ wlock \notin {0, c}
                /\ Continue(c, "locked")
                /\ UNCHANGED <<wlock, written, processed_emails>>
           [] outcome = "error" ->
                /\ Continue(c, "store")
                /\ UNCHANGED <<wlock, written, processed_emails>>
    /\ UNCHANGED <<call, settings, mailbox, unseen, emails, now, request, limit,
                   conn, imap, messages, email_ids, fetched, response>>

\* fault: each row is visible to the other connections as soon as it is written
UpsertAutocommit(c) ==
    /\ pc[c] = "upsert"
    /\ \E outcome \in {"ok", "locked", "error"} :
         CASE outcome = "ok" ->
                /\ wlock \in {0, c}
                /\ wlock' = c
                /\ emails' = InsertOrReplace(emails, [cur[c].row EXCEPT !.processed_at = isoformat(now)])
                /\ written' = [written EXCEPT ![c] =
                       Append(@, [cur[c].row EXCEPT !.processed_at = isoformat(now)])]
                /\ processed_emails' = [processed_emails EXCEPT ![c] =
                       Append(@, cur[c].processed_email)]
                /\ idx' = [idx EXCEPT ![c] = @ + 1]
                /\ pc' = [pc EXCEPT ![c] =
                       IF idx[c] + 1 > Len(email_ids[c]) THEN "commit" ELSE "fetch"]
                /\ cur' = [cur EXCEPT ![c] = NoLocals]
                /\ UNCHANGED skipped
           [] outcome = "locked" ->
                /\ wlock \notin {0, c}
                /\ Continue(c, "locked")
                /\ UNCHANGED <<emails, wlock, written, processed_emails>>
           [] outcome = "error" ->
                /\ Continue(c, "store")
                /\ UNCHANGED <<emails, wlock, written, processed_emails>>
    /\ UNCHANGED <<call, settings, mailbox, unseen, now, request, limit,
                   conn, imap, messages, email_ids, fetched, response>>

\* lines 978-987: INSERT OR REPLACE through the call's connection, then append.
\* The first write takes the store's write lock, kept until the commit; while
\* another connection holds it the statement waits, and raises "database is
\* locked" when the wait times out.
Upsert(c) ==
    /\ pc[c] = "upsert"
    /\ \E outcome \in {"ok", "locked", "error"} :
         CASE outcome = "ok" ->
                /\ wlock \in {0, c}
                /\ wlock' = c
                /\ written' = [written EXCEPT ![c] =
                       Append(@, [cur[c].row EXCEPT !.processed_at = isoformat(now)])]
                /\ processed_emails' = [processed_emails EXCEPT ![c] =
                       Append(@, cur[c].processed_email)]
                /\ idx' = [idx EXCEPT ![c] = @ + 1]
                /\ pc' = [pc EXCEPT ![c] =
                       IF idx[c] + 1 > Len(email_ids[c]) THEN "commit" ELSE "fetch"]
                /\ cur' = [cur EXCEPT ![c] = NoLocals]
                /\ UNCHANGED skipped
           [] outcome = "locked" ->
                /\ wlock \notin {0, c}
                /\ Continue(c, "locked")
                /\ UNCHANGED <<wlock, written, processed_emails>>
           [] outcome = "error" ->
                /\ Continue(c, "store")
                /\ UNCHANGED <<wlock, written, processed_emails>>
    /\ UNCHANGED <<call, settings, mailbox, unseen, emails, now, request, limit,
                   conn, imap, messages, email_ids, fetched, response>>

\* fault: a commit that keeps the first row of the call only
CommitFirstRow(c) ==
    /\ pc[c] = "commit"
    /\ \E ok \in BOOLEAN :
         IF ok
         THEN /\ emails' = ApplyWrites(emails, Take(written[c], 1))
              /\ wlock' = IF wlock = c THEN 0 ELSE wlock
              /\ conn' = [conn EXCEPT ![c] = "closed"]
              /\ pc' = [pc EXCEPT ![c] = "logout"]
              /\ UNCHANGED response
         ELSE /\ Raise(c, "commit failed")
              /\ UNCHANGED <<emails, wlock, conn>>
    /\ UNCHANGED <<call, settings, mailbox, unseen, now, request, limit, written,
                   imap, loopVars>>

\* lines 993-994: conn.commit() makes the call's rows visible and frees the
\* write lock; conn.close()
Commit(c) ==
    /\ pc[c] = "commit"
    /\ \E ok \in BOOLEAN :
         IF ok
         THEN /\ emails' = ApplyWrites(emails, written[c])
              /\ wlock' = IF wlock = c THEN 0 ELSE wlock
              /\ conn' = [conn EXCEPT ![c] = "closed"]
              /\ pc' = [pc EXCEPT ![c] = "logout"]
              /\ UNCHANGED response
         ELSE /\ Raise(c, "commit failed")
              /\ UNCHANGED <<emails, wlock, conn>>
    /\ UNCHANGED <<call, settings, mailbox, unseen, now, request, limit, written,
                   imap, loopVars>>

\* fault: a success response that counts the selected ids
LogoutCountsSelected(c) ==
    /\ pc[c] = "logout"
    /\ \E ok \in BOOLEAN :
         IF ok
         THEN /\ imap' = [imap EXCEPT ![c] = "LOGOUT"]
              /\ pc' = [pc EXCEPT ![c] = "returned"]
              /\ response' = [response EXCEPT ![c] =
                     [status |-> 200, detail |-> "success",
                      processed_count |-> Len(email_ids[c]),
                      emails |-> processed_emails[c]]]
         ELSE Raise(c, "logout failed") /\ UNCHANGED imap
    /\ UNCHANGED <<call, settings, mailbox, unseen, emails, wlock, now, request,
                   limit, conn, written, loopVars>>

\* lines 995-1002: imap.logout(), then the success response
Logout(c) ==
    /\ pc[c] = "logout"
    /\ \E ok \in BOOLEAN :
         IF ok
         THEN /\ imap' = [imap EXCEPT ![c] = "LOGOUT"]
              /\ pc' = [pc EXCEPT ![c] = "returned"]
              /\ response' = [response EXCEPT ![c] =
                     [status |-> 200, detail |-> "success",
                      processed_count |-> Len(processed_emails[c]),
                      emails |-> processed_emails[c]]]
         ELSE Raise(c, "logout failed") /\ UNCHANGED imap
    /\ UNCHANGED <<call, settings, mailbox, unseen, emails, wlock, now, request,
                   limit, conn, written, loopVars>>

\* A call that raised never closes its connection (line 994 is skipped): the
\* connection object is dropped when the handler's frame is released, which
\* rolls its open transaction back and frees the write lock.
Dropped(c) ==
    /\ pc[c] = "returned"
    /\ conn[c] = "open"
    /\ conn' = [conn EXCEPT ![c] = "dropped"]
    /\ wlock' = IF wlock = c THEN 0 ELSE wlock
    /\ UNCHANGED <<call, settings, mailbox, unseen, emails, now, request, pc, limit,
                   written, imap, loopVars, response>>

\* the clock advances
Tick ==
    /\ now < MaxClock
    /\ now' = now + 1
    /\ UNCHANGED <<call, settings, mailbox, unseen, emails, wlock, request, pc, limit,
                   conn, written, imap, loopVars, response>>

NoRequest == [account_id |-> 0, has_limit |-> FALSE, limit |-> 0]

\* no method of the processor has been called directly
NoCall == [method |-> "", args |-> <<>>, result |-> <<>>]

InitCalls ==
    /\ request = [c \in Calls |-> NoRequest]
    /\ pc = [c \in Calls |-> "idle"]
    /\ limit = [c \in Calls |-> 0]
    /\ conn = [c \in Calls |-> "none"]
    /\ written = [c \in Calls |-> <<>>]
    /\ imap = [c \in Calls |-> "none"]
    /\ messages = [c \in Calls |-> <<>>]
    /\ email_ids = [c \in Calls |-> <<>>]
    /\ idx = [c \in Calls |-> 0]
    /\ fetched = [c \in Calls |-> <<>>]
    /\ cur = [c \in Calls |-> NoLocals]
    /\ processed_emails = [c \in Calls |-> <<>>]
    /\ skipped = [c \in Calls |-> <<>>]
    /\ response = [c \in Calls |-> NoResponse]
    /\ call = NoCall

Init ==
    /\ settings \in Configurations
    /\ mailbox = Inbox
    /\ unseen \in UnseenAtStart
    /\ emails = {}
    /\ wlock = 0
    /\ now = 0
    /\ InitCalls

Step(c) ==
    \/ Lookup(c) \/ Connect(c) \/ Login(c) \/ Select(c) \/ Search(c)
    \/ Fetch(c) \/ Classify(c) \/ Upsert(c) \/ Commit(c) \/ Logout(c) \/ Dropped(c)

\* One ingestion call, with any request.
Next ==
    \/ \E r \in Requests : Call(1, r)
    \/ \E c \in Calls : Step(c)
    \/ Tick

Spec == Init /\ [][Next]_vars

\* Specifications of two calls start under the short content length: what a long
\* body adds concerns the processing of one message, which Spec covers.
InitShort == Init /\ settings.MAX_EMAIL_CONTENT_LENGTH = MaxContentLength

\* requests of the concurrent specification: one message for the stored account
ConcRequests == {[account_id |-> 1, has_limit |-> TRUE, limit |-> 1]}

\* Two ingestion calls served by two server processes, in any interleaving.
NextConc ==
    \/ \E c \in Calls : \E r \in ConcRequests : Call(c, r)
    \/ \E c \in Calls : Step(c)
    \/ Tick

SpecConc == InitShort /\ [][NextConc]_vars

\* requests of the sequential specification: one or two messages
SeqRequests == {[account_id |-> 1, has_limit |-> TRUE, limit |-> n] : n \in {1, 2}}

\* Two ingestion calls served by one server process: the handler never awaits,
\* so the second call starts after the first has returned.
NextSeq ==
    \/ \E r \in SeqRequests : Call(1, r)
    \/ \E r \in SeqRequests : pc[1] = "returned" /\ Call(2, r)
    \/ \E c \in Calls : Step(c)
    \/ Tick

SpecSeq == InitShort /\ [][NextSeq]_vars

\* ------------------------------------------- the processor, called directly
\* One call of one method in a behaviour. The program calls the methods from
\* lines 958-963 only, on normalized text.

\* config.py as shipped
DefaultSettings ==
    [ENABLE_EMAIL_PROCESSING |-> TRUE,
     ENABLE_RESPONSE_GENERATION |-> TRUE,
     EMAIL_BATCH_SIZE |-> 10,
     MAX_EMAIL_BATCH_SIZE |-> 50,
     MAX_EMAIL_CONTENT_LENGTH |-> 10000,
     MAX_SUBJECT_LENGTH |-> 200]

\* the configurations the processor is built with
ProcessorConfigurations ==
    {DefaultSettings, Settings(TRUE, MaxContentLength),
     [DefaultSettings EXCEPT !.ENABLE_RESPONSE_GENERATION = FALSE]}

\* bodies of messages, before normalization
Bodies ==
    {"",
     "Please send the invoice by Friday, this is urgent!",
     "urgent meeting",
     "zoom call about the invoice",
     "thank you, great help",
     "Thank you for the bug problem",
     "aaaaaaaaaaaa  urgent",
     "by friday, monday at 10:30, eod today, due 5 march",
     "end of asap by monday",
     "family newsletter",
     "Please call. must call! todo: Fix it \nplease . finish the report?",
     "nothing here"}

\* a body with more action items than line 664 keeps
ManyActions == "please a. please b. please c. please d. please e. please f."

\* subjects of messages, before normalization
Subjects == {"", "Payment needed", "urgent", "Hi"}

\* what lines 937-953 pass on: the texts cut to the configured lengths
NormalizedBodies == {SliceTo(b, settings.MAX_EMAIL_CONTENT_LENGTH) : b \in Bodies}
NormalizedSubjects == {SliceTo(b, settings.MAX_SUBJECT_LENGTH) : b \in Subjects}

\* categories passed to calculate_priority: those of the table, 'general', and one unlisted
CategoryNames == {categories[k].name : k \in DOMAIN categories} \cup {"general", "other"}

Sentiments == {"positive", "negative", "neutral"}

\* lists of action items, as line 959 can produce them
ActionLists ==
    {<<>>, <<"call">>, <<"fix it", "call">>, <<"a", "b", "c">>, <<"d", "a", "c", "b">>,
     <<"e", "d", "c", "b", "a">>}

pipelineVars == <<settings, mailbox, unseen, emails, wlock, now, request, pc, limit, conn,
                  written, imap, messages, email_ids, idx, fetched, cur, processed_emails,
                  skipped, response>>

\* processor.categorize_email(content, subject)
CallCategorizeEmail(content, subject) ==
    /\ call = NoCall
    /\ call' = [method |-> "categorize_email",
                args |-> [content |-> content, subject |-> subject],
                result |-> categorize_email(content, subject)]
    /\ UNCHANGED pipelineVars

\* processor.analyze_sentiment(content)
CallAnalyzeSentiment(content) ==
    /\ call = NoCall
    /\ call' = [method |-> "analyze_sentiment",
                args |-> [content |-> content],
                result |-> analyze_sentiment(content)]
    /\ UNCHANGED pipelineVars

\* processor.extract_deadlines(content), when the clock reads now
CallExtractDeadlines(content) ==
    /\ call = NoCall
    /\ call' = [method |-> "extract_deadlines",
                args |-> [content |-> content],
                result |-> extract_deadlines(content, now)]
    /\ UNCHANGED pipelineVars

\* processor.extract_action_items(content): one of the orders the set can have
CallExtractActionItems(content) ==
    /\ call = NoCall
    /\ \E action_items \in extract_action_items(content) :
         call' = [method |-> "extract_action_items",
                  args |-> [content |-> content],
                  result |-> action_items]
    /\ UNCHANGED pipelineVars

\* processor.generate_response_template(category, sentiment, action_items)
CallGenerateResponseTemplate(category, sentiment, action_items) ==
    /\ call = NoCall
    /\ call' = [method |-> "generate_response_template",
                args |-> [category |-> category, sentiment |-> sentiment,
                          action_items |-> action_items],
                result |-> generate_response_template(category, sentiment, action_items)]
    /\ UNCHANGED pipelineVars

\* processor.calculate_priority(category, sentiment, has_deadlines)
CallCalculatePriority(category, sentiment, has_deadlines) ==
    /\ call = NoCall
    /\ call' = [method |-> "calculate_priority",
                args |-> [category |-> category, sentiment |-> sentiment,
                          has_deadlines |-> has_deadlines],
                result |-> calculate_priority(category, sentiment, has_deadlines)]
    /\ UNCHANGED pipelineVars

\* lines 956-985 on a normalized message: the record for the caller and the row
CallClassify(subject, content) ==
    /\ call = NoCall
    /\ \E records \in Classified(subject, "a@x", content, now) :
         call' = [method |-> "classify",
                  args |-> [subject |-> subject, content |-> content],
                  result |-> records]
    /\ UNCHANGED pipelineVars

InitProcessor ==
    /\ settings \in ProcessorConfigurations
    /\ mailbox = Inbox
    /\ unseen = DOMAIN mailbox
    /\ emails = {}
    /\ wlock = 0
    /\ now = 0
    /\ InitCalls

NextProcessor ==
    \/ \E content \in NormalizedBodies : \E subject \in NormalizedSubjects :
         CallCategorizeEmail(content, subject)
    \/ \E content \in NormalizedBodies : CallAnalyzeSentiment(content)
    \/ \E content \in NormalizedBodies : CallExtractDeadlines(content)
    \/ \E category \in CategoryNames : \E sentiment \in Sentiments :
         \E has_deadlines \in BOOLEAN :
           CallCalculatePriority(category, sentiment, has_deadlines)
    \/ \E content \in NormalizedBodies \cup {SliceTo(ManyActions, settings.MAX_EMAIL_CONTENT_LENGTH)} :
         CallExtractActionItems(content)
    \/ \E category \in CategoryNames : \E sentiment \in Sentiments :
         \E action_items \in ActionLists :
           CallGenerateResponseTemplate(category, sentiment, action_items)
    \/ \E content \in NormalizedBodies : \E subject \in NormalizedSubjects :
         CallClassify(subject, content)
    \/ Tick

SpecProcessor == InitProcessor /\ [][NextProcessor]_vars

\* ------------------------------------------- messages with shifted headers

\* MsgDeadline with the first character of its subject at the end of its sender
MsgShifted ==
    [Subject |-> StrHeader("i"), From |-> StrHeader("a@xH"), multipart |-> FALSE,
     parts |-> <<Part("text/plain", <<Text("due friday")>>)>>]

\* INBOX with the two messages
ShiftedInbox == <<MsgDeadline, MsgShifted>>

InitShifted ==
    /\ settings \in Configurations
    /\ mailbox = ShiftedInbox
    /\ unseen \in {DOMAIN ShiftedInbox, {Len(ShiftedInbox)}}
    /\ emails = {}
    /\ wlock = 0
    /\ now = 0
    /\ InitCalls

\* One ingestion call, with any request, on the two messages.
SpecShifted == InitShifted /\ [][Next]_vars

\* ------------------------------------------------------ the read endpoints
\* A read endpoint served by another server process than the ingestion call,
\* on its own connection to the same database file: each of its statements
\* reads the committed rows, or fails when the file is locked. The variable
\* call holds its locals and its response. Analytics is enabled, as shipped.

\* the clock reading a processed_at text was written at
TimeOf(processed_at) == CHOOSE t \in 0..MaxClock : isoformat(t) = processed_at

\* seconds in timedelta(days=7)
Week == 604800

\* WHERE 1=1 [AND category = ?] [AND priority >= ?]; an empty category or a
\* priority of 0 is falsy and adds no condition
Selected(table, category, priority) ==
    {r \in table : /\ category # "" => r.category = category
                   /\ priority # 0 => r.priority >= priority}

\* ORDER BY processed_at DESC: any order of the rows that does not put an
\* earlier row before a later one
Descending(rows) ==
    {order \in Perms(rows) :
        \A i, j \in DOMAIN order :
            i < j => TimeOf(order[i].processed_at) >= TimeOf(order[j].processed_at)}

\* lines 1033-1045: the columns copied into the response (the lists decoded
\* from the columns action_items and deadlines are left out of the model)
EmailOut(row) ==
    [id |-> row.id, subject |-> row.subject, sender |-> row.sender,
     content |-> row.content, category |-> row.category, priority |-> row.priority,
     processed_at |-> row.processed_at, sentiment |-> row.sentiment]

\* lines 1010-1051
GetProcessedEmails(category, priority) ==
    /\ call = NoCall
    /\ \/ \E order \in Descending(Selected(emails, category, priority)) :
            call' = [method |-> "get_processed_emails",
                     args |-> [category |-> category, priority |-> priority],
                     result |-> [status |-> 200,
                                 emails |-> [k \in DOMAIN order |-> EmailOut(order[k])]]]
       \/ call' = [method |-> "get_processed_emails",
                   args |-> [category |-> category, priority |-> priority],
                   result |-> [status |-> 500, emails |-> <<>>]]
    /\ UNCHANGED pipelineVars

\* SELECT column, COUNT(*) FROM emails GROUP BY column, as a dict
CountBy(table, column) ==
    [v \in {r[column] : r \in table} |-> Cardinality({r \in table : r[column] = v})]

NoStats == [stage |-> "total", status |-> 0, total_emails |-> 0, categories |-> <<>>,
            priorities |-> <<>>, recent_activity |-> 0]

Dashboard(stats) == [method |-> "get_dashboard_stats", args |-> <<>>, result |-> stats]

\* the except clause of lines 1090-1092
DashboardRaise == call' = Dashboard([call.result EXCEPT !.stage = "returned", !.status = 500])

\* lines 1065-1067: SELECT COUNT(*) FROM emails
DashboardTotal ==
    /\ call = NoCall
    /\ \/ call' = Dashboard([NoStats EXCEPT !.stage = "categories",
                                            !.total_emails = Cardinality(emails)])
       \/ call' = Dashboard([NoStats EXCEPT !.stage = "returned", !.status = 500])
    /\ UNCHANGED pipelineVars

\* lines 1069-1071
DashboardCategories ==
    /\ call.method = "get_dashboard_stats" /\ call.result.stage = "categories"
    /\ \/ call' = Dashboard([call.result EXCEPT !.stage = "priorities",
                                                !.categories = CountBy(emails, "category")])
       \/ DashboardRaise
    /\ UNCHANGED pipelineVars

\* lines 1073-1075
DashboardPriorities ==
    /\ call.method = "get_dashboard_stats" /\ call.result.stage = "priorities"
    /\ \/ call' = Dashboard([call.result EXCEPT !.stage = "recent",
                                                !.priorities = CountBy(emails, "priority")])
       \/ DashboardRaise
    /\ UNCHANGED pipelineVars

\* lines 1077-1088: the rows processed after week_ago, then the response
DashboardRecent ==
    /\ call.method = "get_dashboard_stats" /\ call.result.stage = "recent"
    /\ \/ call' = Dashboard([call.result EXCEPT
               !.stage = "returned", !.status = 200,
               !.recent_activity =
                   Cardinality({r \in emails : TimeOf(r.processed_at) > now - Week})])
       \/ DashboardRaise
    /\ UNCHANGED pipelineVars

\* the request of the ingestion call that runs beside the reader
ReaderRequests == {[account_id |-> 1, has_limit |-> TRUE, limit |-> MaxBatchSize]}

\* filters of GET /api/emails
CategoryFilters == {"", "general"}
PriorityFilters == {0, 4}

\* the reader runs beside a call that finds two different messages unseen, or
\* the last message alone
InitReader ==
    /\ settings = Settings(TRUE, MaxContentLength)
    /\ mailbox = Inbox
    /\ unseen \in {{4, 5}, {Len(Inbox)}}
    /\ emails = {}
    /\ wlock = 0
    /\ now = 0
    /\ InitCalls

NextReader ==
    \/ \E r \in ReaderRequests : Call(1, r)
    \/ \E c \in Calls : Step(c)
    \/ \E category \in CategoryFilters : \E priority \in PriorityFilters :
         GetProcessedEmails(category, priority)
    \/ DashboardTotal \/ DashboardCategories \/ DashboardPriorities \/ DashboardRecent

\* one ingestion call and one call of a read endpoint, in any interleaving
SpecReader == InitReader /\ [][NextReader]_vars

\* ------------------------------------------------------------------ claims

Returned(c) == pc[c] = "returned"
Succeeded(c) == response[c].status = 200
Failed(c) == response[c].status = 500

\* s[:n], written without SliceTo
CutTo(s, n) == IF Len(s) > n THEN SubSeq(s, 1, n) ELSE s

\* the id line 956 gives the raw message with sequence number id
FingerprintOf(id) ==
    email_hash(RawSender(mailbox[id]),
               CutTo(RawSubject(mailbox[id]), settings.MAX_SUBJECT_LENGTH),
               CutTo(RawBody(mailbox[id]), settings.MAX_EMAIL_CONTENT_LENGTH))

\* the selected ids that were not skipped, in order
NotSkipped(c) ==
    SelectSeq(email_ids[c], LAMBDA id : \A j \in DOMAIN skipped[c] : skipped[c][j].id # id)

\* the limit lines 896-899 resolve from the request
EffectiveLimit(c) ==
    Min(IF request[c].has_limit THEN request[c].limit ELSE settings.EMAIL_BATCH_SIZE,
        settings.MAX_EMAIL_BATCH_SIZE)

\* the last k elements of a sequence
LastOf(seq, k) == [i \in 1..k |-> seq[Len(seq) - k + i]]

\* the last row of the given id among rows
LastWrite(rows, id) ==
    rows[CHOOSE k \in DOMAIN rows :
             rows[k].id = id /\ \A j \in DOMAIN rows : rows[j].id = id => j <= k]

Committed(c) == conn[c] = "closed"

\* C1: whatever limit the caller passes (none, zero, negative, any integer),
\* one call fetches at most MAX_EMAIL_BATCH_SIZE messages.
C1_BatchCeiling == \A c \in Calls : Len(fetched[c]) <= settings.MAX_EMAIL_BATCH_SIZE

\* C2: a call that reports a failure has committed none of the rows it wrote.
C2_FailureCommitsNothing ==
    \A c \in Calls :
        Failed(c) => \A k \in DOMAIN written[c] : written[c][k] \notin emails

\* C3: a message that fails in the loop is skipped alone. A call that succeeds
\* returns one record for each selected message that was not skipped, in
\* order and under the message's fingerprint, each with a row in the store;
\* with exactly one message skipped out of N it returns N-1 records.
C3_SkipOnlyTheFailing ==
    \A c \in Calls :
        Succeeded(c) =>
            /\ Len(response[c].emails) = Len(NotSkipped(c))
            /\ \A k \in DOMAIN response[c].emails :
                   /\ response[c].emails[k].id = FingerprintOf(NotSkipped(c)[k])
                   /\ \E r \in emails : r.id = FingerprintOf(NotSkipped(c)[k])
            /\ (Len(skipped[c]) = 1 =>
                    Len(response[c].emails) = Len(email_ids[c]) - 1)

\* C3 happens: a successful call that selected at least two messages, skipped
\* exactly one and returned all the others.
C3_Witness ==
    \E c \in Calls :
        /\ Succeeded(c)
        /\ Len(email_ids[c]) >= 2
        /\ Len(skipped[c]) = 1
        /\ response[c].processed_count = Len(email_ids[c]) - 1

\* C4: the same raw message gets the same id each time it is processed (the
\* id is a function of the raw message), the store holds at most one row per
\* id, and that row is the last one committed under the id: the second call's
\* when the second call committed one, else the first call's.
C4_ReprocessingReplaces ==
    /\ \A r1, r2 \in emails : r1.id = r2.id => r1 = r2
    /\ \A c \in Calls :
           pc[c] = "upsert" => cur[c].row.id = FingerprintOf(email_ids[c][idx[c]])
    /\ \A c \in Calls :
           Committed(c) => \A k \in DOMAIN written[c] :
                               \E r \in emails : r.id = written[c][k].id
    /\ \A r \in emails :
           IF Committed(2) /\ \E k \in DOMAIN written[2] : written[2][k].id = r.id
           THEN r = LastWrite(written[2], r.id)
           ELSE Committed(1) /\ r = LastWrite(written[1], r.id)

\* C4 happens: two successive calls processed copies of one message, at
\* different times, and the store holds the second call's row only.
C4_Witness ==
    /\ Committed(1) /\ Committed(2)
    /\ \E k1 \in DOMAIN written[1] : \E k2 \in DOMAIN written[2] :
           /\ written[1][k1].id = written[2][k2].id
           /\ written[1][k1] # written[2][k2]
           /\ written[2][k2] \in emails
           /\ written[1][k1] \notin emails

\* C5: two runs of the classifier on the same subject and body give the same
\* category, sentiment, priority, action items and deadlines.
C5_Deterministic ==
    \A c1, c2 \in Calls :
        \A k1 \in DOMAIN processed_emails[c1] : \A k2 \in DOMAIN processed_emails[c2] :
            LET p1 == processed_emails[c1][k1]
                p2 == processed_emails[c2][k2]
            IN  (p1.subject = p2.subject /\ p1.content = p2.content) =>
                    /\ p1.category = p2.category
                    /\ p1.sentiment = p2.sentiment
                    /\ p1.priority = p2.priority
                    /\ p1.action_items = p2.action_items
                    /\ p1.deadlines = p2.deadlines

\* C6: while the session of a call has not reached a selected mailbox, the
\* call has fetched, upserted and processed nothing; and a call that returns
\* in that condition returns an error with a reason and no records.
C6_ConnectionFailureAborts ==
    \A c \in Calls :
        imap[c] \in {"none", "NONAUTH", "AUTH"} =>
            /\ fetched[c] = <<>>
            /\ written[c] = <<>>
            /\ processed_emails[c] = <<>>
            /\ Returned(c) =>
                   /\ response[c].status # 200
                   /\ response[c].detail # ""
                   /\ response[c].emails = <<>>
                   /\ response[c].processed_count = 0

\* C6 happens: the server refused the selection, the session stayed in state
\* AUTH, and the call returned the error of the search that followed.
C6_Witness ==
    \E c \in Calls :
        /\ Failed(c)
        /\ imap[c] = "AUTH"
        /\ response[c].detail = "Error processing emails: command SEARCH illegal in state AUTH"

\* C7: with a resolved limit L >= 1 and n ids found, the call selects the last
\* min(L, n) ids found, fetches them in that order once each, has fetched all
\* of them when the loop is over, and never more than MAX_EMAIL_BATCH_SIZE.
C7_LastIdsInOrder ==
    \A c \in Calls :
        (idx[c] >= 1 /\ EffectiveLimit(c) >= 1) =>
            /\ email_ids[c] =
                   LastOf(messages[c], Min(EffectiveLimit(c), Len(messages[c])))
            /\ Len(fetched[c]) <= Len(email_ids[c])
            /\ fetched[c] = SubSeq(email_ids[c], 1, Len(fetched[c]))
            /\ Len(fetched[c]) \in {idx[c] - 1, idx[c]}
            /\ (pc[c] \in {"commit", "logout", "returned"} => fetched[c] = email_ids[c])
            /\ Len(fetched[c]) <= settings.MAX_EMAIL_BATCH_SIZE

\* C7 happens: a limit above the maximum, more unseen messages than the
\* maximum, and the call over, its fetches being the last ids.
C7_Witness ==
    \E c \in Calls :
        /\ Returned(c)
        /\ request[c].has_limit
        /\ request[c].limit > settings.MAX_EMAIL_BATCH_SIZE
        /\ Len(messages[c]) > settings.MAX_EMAIL_BATCH_SIZE
        /\ Len(fetched[c]) = settings.MAX_EMAIL_BATCH_SIZE
        /\ fetched[c][Len(fetched[c])] = messages[c][Len(messages[c])]

\* C8: two concurrent calls leave the store with one row per id, every row
\* written whole by one call, every record reported by a finished successful
\* call stored, and no message skipped because the other call was writing.
C8_ConcurrentCallsIndependent ==
    /\ \A r1, r2 \in emails : r1.id = r2.id => r1 = r2
    /\ \A r \in emails : \E c \in Calls : r \in Range(written[c])
    /\ (\A c \in Calls : Returned(c)) =>
           \A c \in Calls : \A k \in DOMAIN response[c].emails :
               \E r \in emails : r.id = response[c].emails[k].id
    /\ \A c \in Calls : \A k \in DOMAIN skipped[c] : skipped[c][k].stage # "locked"

\* C9: on success processed_count is the length of the returned list and the
\* number of selected messages less the skipped ones, at most the number of
\* messages fetched.
C9_CountIsAuthoritative ==
    \A c \in Calls :
        Succeeded(c) =>
            /\ response[c].processed_count = Len(response[c].emails)
            /\ response[c].processed_count = Len(email_ids[c]) - Len(skipped[c])
            /\ response[c].processed_count <= Len(fetched[c])

\* C9 happens: a successful call whose count is below the limit it was asked
\* for, a message having been skipped.
C9_Witness ==
    \E c \in Calls :
        /\ Succeeded(c)
        /\ request[c].has_limit
        /\ Len(skipped[c]) >= 1
        /\ response[c].processed_count >= 1
        /\ response[c].processed_count < request[c].limit

\* what the classifiers and the fingerprint are given is the cut subject and body
CutForProcessing(c) ==
    pc[c] \in {"classify", "upsert"} =>
        /\ cur[c].subject = CutTo(RawSubject(mailbox[email_ids[c][idx[c]]]),
                                  settings.MAX_SUBJECT_LENGTH)
        /\ cur[c].content = CutTo(RawBody(mailbox[email_ids[c][idx[c]]]),
                                  settings.MAX_EMAIL_CONTENT_LENGTH)
        /\ (pc[c] = "upsert" =>
                /\ cur[c].row.id = email_hash(cur[c].sender, cur[c].subject, cur[c].content)
                /\ cur[c].row.subject = cur[c].subject
                /\ cur[c].row.content = cur[c].content
                /\ cur[c].row.sentiment = analyze_sentiment(cur[c].content))

\* no stored row holds a subject or body above the configured lengths
StoredWithinLengths(c) ==
    /\ \A k \in DOMAIN written[c] :
           /\ Len(written[c][k].subject) <= settings.MAX_SUBJECT_LENGTH
           /\ Len(written[c][k].content) <= settings.MAX_EMAIL_CONTENT_LENGTH
    /\ \A r \in emails :
           /\ Len(r.subject) <= settings.MAX_SUBJECT_LENGTH
           /\ Len(r.content) <= settings.MAX_EMAIL_CONTENT_LENGTH

\* C10 as stated: subject and body are cut to the configured lengths before
\* the fingerprint and the classifiers, and no stored or returned record holds
\* a subject or a body above them.
C10_NothingAboveLengths ==
    \A c \in Calls :
        /\ CutForProcessing(c)
        /\ StoredWithinLengths(c)
        /\ \A k \in DOMAIN processed_emails[c] :
               /\ Len(processed_emails[c][k].subject) <= settings.MAX_SUBJECT_LENGTH
               /\ Len(processed_emails[c][k].content) <= settings.MAX_EMAIL_CONTENT_LENGTH

\* C10: subject and body are cut to the configured lengths (exactly, when
\* longer) before the fingerprint and the classifiers; no stored record holds
\* more; a returned record holds the cut subject, and the cut body or its
\* first 500 characters followed by "...".
C10_CutBeforeClassification ==
    \A c \in Calls :
        /\ CutForProcessing(c)
        /\ StoredWithinLengths(c)
        /\ \A k \in DOMAIN processed_emails[c] :
               /\ Len(processed_emails[c][k].subject) <= settings.MAX_SUBJECT_LENGTH
               /\ IF Len(written[c][k].content) <= 500
                  THEN processed_emails[c][k].content = written[c][k].content
                  ELSE /\ Len(processed_emails[c][k].content) = 503
                       /\ SubSeq(processed_emails[c][k].content, 1, 500)
                              = SubSeq(written[c][k].content, 1, 500)
                       /\ SubSeq(processed_emails[c][k].content, 501, 503) = "..."

\* C10 happens: a message whose subject and body are longer than the
\* configured lengths was processed, stored and returned, cut to them.
C10_Witness ==
    \E c \in Calls : \E k \in DOMAIN response[c].emails : \E j \in DOMAIN email_ids[c] :
        /\ Succeeded(c)
        /\ Len(RawSubject(mailbox[email_ids[c][j]])) > settings.MAX_SUBJECT_LENGTH
        /\ Len(RawBody(mailbox[email_ids[c][j]])) > settings.MAX_EMAIL_CONTENT_LENGTH
        /\ response[c].emails[k].id = FingerprintOf(email_ids[c][j])
        /\ Len(response[c].emails[k].subject) = settings.MAX_SUBJECT_LENGTH
        /\ \E r \in emails :
               /\ r.id = response[c].emails[k].id
               /\ Len(r.content) = settings.MAX_EMAIL_CONTENT_LENGTH

\* C11: calculate_priority returns an integer in 1..5 for every category,
\* listed or not, every sentiment and both values of has_deadlines; and the
\* row and the returned record built from a message carry a priority in 1..5.
C11_PriorityInRange ==
    /\ call.method = "calculate_priority" => call.result \in 1..5
    /\ call.method = "classify" =>
           /\ call.result.row.priority \in 1..5
           /\ call.result.processed_email.priority \in 1..5

\* C11 happens: the call whose sum is 7 returned 5.
C11_Witness ==
    /\ call.method = "calculate_priority"
    /\ call.args = [category |-> "urgent", sentiment |-> "negative", has_deadlines |-> TRUE]
    /\ call.result = 5

\* the categories in the order the claim lists them
TableOrder ==
    <<"urgent", "meeting", "project", "invoice", "personal", "newsletter", "support">>

\* the number of the keywords of category k present in text
ScoreOf(k, text) ==
    Cardinality({j \in DOMAIN categories[k].keywords :
                    \E p \in 1..Len(text) : StartsWith(text, p, categories[k].keywords[j])})

\* the category the claim names for a lowercased text
CategoryByScore(text) ==
    IF \A k \in 1..7 : ScoreOf(k, text) = 0 THEN "general"
    ELSE TableOrder[CHOOSE k \in 1..7 :
                        /\ \A j \in 1..7 : ScoreOf(j, text) <= ScoreOf(k, text)
                        /\ \A j \in 1..(k - 1) : ScoreOf(j, text) < ScoreOf(k, text)]

\* C12: categorize_email returns the first category, in table order, whose
\* count of keywords present in lowercase(body + " " + subject) is greatest,
\* and "general" exactly when every count is zero; the result is one of the
\* seven categories or "general".
C12_FirstMaxCategory ==
    /\ [k \in DOMAIN categories |-> categories[k].name] = TableOrder
    /\ call.method = "categorize_email" =>
           /\ call.result = CategoryByScore(Lower(call.args.content \o " " \o call.args.subject))
           /\ call.result \in Range(TableOrder) \cup {"general"}
           /\ (call.result = "general") <=>
                  \A k \in 1..7 :
                      ScoreOf(k, Lower(call.args.content \o " " \o call.args.subject)) = 0

\* C12 happens: a text with one keyword of 'urgent' and one of 'meeting' was
\* given the earlier of the two.
C12_Witness ==
    /\ call.method = "categorize_email"
    /\ call.args = [content |-> "urgent meeting", subject |-> "Hi"]
    /\ call.result = "urgent"

\* the three values the id is made of, for message id of the mailbox
IdKey(id) ==
    [sender |-> RawSender(mailbox[id]),
     subject |-> CutTo(RawSubject(mailbox[id]), settings.MAX_SUBJECT_LENGTH),
     prefix |-> SliceTo(CutTo(RawBody(mailbox[id]), settings.MAX_EMAIL_CONTENT_LENGTH), 100)]

\* C13: the id of a record is the digest of the sender, the cut subject and the
\* first 100 characters of the cut body of its message; records equal on these
\* three have the same id whatever follows character 100 of their bodies; and
\* the store holds, for an id, the record written last.
C13_IdFromTriple ==
    \A c \in Calls :
        /\ pc[c] = "upsert" =>
               LET key == IdKey(email_ids[c][idx[c]])
               IN  cur[c].row.id = md5_hexdigest(key.sender \o key.subject \o key.prefix)
        /\ \A j, k \in DOMAIN written[c] :
               (/\ written[c][j].sender = written[c][k].sender
                /\ written[c][j].subject = written[c][k].subject
                /\ SliceTo(written[c][j].content, 100) = SliceTo(written[c][k].content, 100))
               => written[c][j].id = written[c][k].id
        /\ Committed(c) =>
               \A k \in DOMAIN written[c] :
                   \A r \in emails :
                       r.id = written[c][k].id => r = LastWrite(written[c], r.id)

\* C13 happens: one call wrote the records of two messages whose bodies
\* differ after character 100 only; they have one id, and the store holds the
\* later record alone.
C13_Witness ==
    \E c \in Calls : \E j, k \in DOMAIN written[c] :
        /\ Committed(c)
        /\ j < k
        /\ written[c][j].id = written[c][k].id
        /\ written[c][j].content # written[c][k].content
        /\ SliceTo(written[c][j].content, 100) = SliceTo(written[c][k].content, 100)
        /\ Len(written[c][j].content) > 100
        /\ written[c][k] \in emails
        /\ written[c][j] \notin emails
        /\ request[c].has_limit /\ request[c].limit = Len(messages[c])

\* C14: a call for an account id with no account record returns status 404
\* with detail 'Account not found', which no connection or processing failure
\* returns; it opened no mail-server session and wrote nothing.
C14_AccountNotFound ==
    \A c \in Calls :
        (/\ Returned(c)
         /\ settings.ENABLE_EMAIL_PROCESSING
         /\ request[c].account_id \notin email_accounts)
        => /\ response[c].status = 404
           /\ response[c].detail = "Account not found"
           /\ imap[c] = "none"
           /\ written[c] = <<>>
           /\ emails = {}

\* C15: with the feature flag off, every call, whatever its account id and
\* limit, returns status 503 'Email processing is disabled' and does nothing
\* else: the store connection and the mail-server session are never opened,
\* nothing is fetched or written, and the store and the mailbox stay as they were.
C15_DisabledDoesNothing ==
    ~settings.ENABLE_EMAIL_PROCESSING =>
        /\ emails = {}
        /\ unseen \in UnseenAtStart
        /\ \A c \in Calls :
               /\ pc[c] \in {"idle", "returned"}
               /\ conn[c] = "none" /\ imap[c] = "none"
               /\ fetched[c] = <<>> /\ written[c] = <<>>
               /\ Returned(c) =>
                      /\ response[c].status = 503
                      /\ response[c].detail = "Email processing is disabled"

\* C15 happens: a call for the stored account with a valid limit was refused
\* because the flag is off.
C15_Witness ==
    /\ ~settings.ENABLE_EMAIL_PROCESSING
    /\ Returned(1)
    /\ request[1] = [account_id |-> 1, has_limit |-> TRUE, limit |-> 2]
    /\ response[1].status = 503
    /\ unseen = DOMAIN mailbox

\* the first example of the specification
ExampleBody == "Please send the invoice by Friday, this is urgent!"
ExampleSubject == "Payment needed"
ExampleText == Lower(ExampleBody \o " " \o ExampleSubject)

\* the pipeline ran on the example
OnExample ==
    /\ call.method = "classify"
    /\ call.args = [subject |-> ExampleSubject, content |-> ExampleBody]

\* C16 as stated: on the example the lists of 'invoice' and 'urgent' match
\* once each, the category is the first of the greatest score in table order,
\* the sentiment is negative, one deadline is found, and the priority is the
\* base of the category plus 1 for the deadline, at most 5.
C16_ExampleAsStated ==
    OnExample =>
        LET r == call.result.processed_email
        IN  /\ ScoreOf(4, ExampleText) = 1
            /\ ScoreOf(1, ExampleText) = 1
            /\ r.category = CategoryByScore(ExampleText)
            /\ r.sentiment = "negative"
            /\ Len(r.deadlines) = 1
            /\ r.priority = Min(5, (IF r.category = "urgent" THEN 5 ELSE 3) + 1)

\* C16, amended: on the example the list of 'invoice' matches twice ('invoice',
\* 'payment') and the list of 'urgent' once, the category is 'invoice', the
\* sentiment is negative, one deadline of text 'friday' and tag 'medium' is
\* found, and the priority is 3 + 1 for the sentiment + 1 for the deadline = 5.
C16_Example ==
    OnExample =>
        LET r == call.result.processed_email
        IN  /\ TableOrder[4] = "invoice" /\ TableOrder[1] = "urgent"
            /\ ScoreOf(4, ExampleText) = 2
            /\ ScoreOf(1, ExampleText) = 1
            /\ \A k \in DOMAIN TableOrder : k \notin {1, 4} => ScoreOf(k, ExampleText) = 0
            /\ r.category = "invoice"
            /\ r.category = CategoryByScore(ExampleText)
            /\ r.sentiment = "negative"
            /\ Len(r.deadlines) = 1
            /\ r.deadlines[1].text = "friday"
            /\ r.deadlines[1].priority = "medium"
            /\ r.priority = 5
            /\ call.result.row.priority = 5

\* C16 happens: the pipeline ran on the example under the shipped lengths.
C16_Witness ==
    /\ OnExample
    /\ settings = DefaultSettings
    /\ call.result.processed_email.category = "invoice"
    /\ call.result.processed_email.priority = 5

\* C17: for an empty body and an empty subject the pipeline gives category
\* 'general', sentiment 'neutral', no action items, no deadlines and priority 2,
\* in the returned record and in the stored row.
C17_EmptyMessage ==
    (call.method = "classify" /\ call.args = [subject |-> "", content |-> ""]) =>
        /\ call.result.processed_email.category = "general"
        /\ call.result.processed_email.sentiment = "neutral"
        /\ call.result.processed_email.action_items = <<>>
        /\ call.result.processed_email.deadlines = <<>>
        /\ call.result.processed_email.priority = 2
        /\ call.result.row.category = "general"
        /\ call.result.row.sentiment = "neutral"
        /\ call.result.row.action_items = "[]"
        /\ call.result.row.deadlines = "[]"
        /\ call.result.row.priority = 2

\* C17 happens: the pipeline ran on an empty body and an empty subject.
C17_Witness ==
    /\ call.method = "classify"
    /\ call.args = [subject |-> "", content |-> ""]
    /\ call.result.processed_email.priority = 2
    /\ call.result.processed_email.content = ""

\* the base priorities of line 706-715, 2 for a category not listed
BaseOf(category) ==
    LET listed == [urgent |-> 5, support |-> 4, meeting |-> 4, project |-> 3,
                   invoice |-> 3, personal |-> 2, newsletter |-> 1, general |-> 2]
    IN  IF category \in DOMAIN listed THEN listed[category] ELSE 2

PriorityFormula(category, sentiment, has_deadlines) ==
    Min(5, BaseOf(category) + (IF sentiment = "negative" THEN 1 ELSE 0)
                            + (IF has_deadlines THEN 1 ELSE 0))

\* C18: calculate_priority returns min(5, base + 1 if the sentiment is negative
\* + 1 if there are deadlines), base 2 for an unlisted category; the pipeline
\* gives a record the priority of this formula on the category, the sentiment
\* and the deadlines it computed for the same message.
C18_PriorityFormula ==
    /\ call.method = "calculate_priority" =>
           call.result = PriorityFormula(call.args.category, call.args.sentiment,
                                         call.args.has_deadlines)
    /\ call.method = "classify" =>
           LET r == call.result.processed_email
           IN  /\ r.category = categorize_email(call.args.content, call.args.subject)
               /\ r.sentiment = analyze_sentiment(call.args.content)
               /\ [k \in DOMAIN r.deadlines |-> r.deadlines[k].text]
                      = Take(DeadlineTexts(call.args.content), 3)
               /\ r.priority = PriorityFormula(r.category, r.sentiment, Len(r.deadlines) > 0)
               /\ call.result.row.priority = r.priority
               /\ call.result.row.category = r.category
               /\ call.result.row.sentiment = r.sentiment

\* C18 happens: the pipeline gave priority 3 to a message of category
\* 'general' and neutral sentiment because it has deadlines.
C18_Witness ==
    /\ call.method = "classify"
    /\ call.result.processed_email.category = "general"
    /\ call.result.processed_email.sentiment = "neutral"
    /\ Len(call.result.processed_email.deadlines) = 3
    /\ call.result.processed_email.priority = 3

\* the number of the words of a set that occur in a text
Present(words, text) ==
    Cardinality({w \in words : \E p \in 1..Len(text) : StartsWith(text, p, w)})

PositiveIn(text) == Present({"thank", "great", "excellent", "good", "pleased", "happy"}, text)
NegativeIn(text) ==
    Present({"urgent", "problem", "issue", "concern", "disappointed", "angry"}, text)

SentimentByCount(body) ==
    LET p == PositiveIn(Lower(body))
        q == NegativeIn(Lower(body))
    IN  CHOOSE s \in Sentiments :
            /\ s = "positive" <=> p > q
            /\ s = "negative" <=> q > p
            /\ s = "neutral" <=> p = q

\* C19: with p and q the numbers of positive and negative keywords present in
\* the lowercased body, analyze_sentiment returns 'positive' iff p > q,
\* 'negative' iff q > p and 'neutral' iff p = q; the sentiment of a record is
\* that of its body, whatever its subject is.
C19_SentimentOfBody ==
    /\ call.method = "analyze_sentiment" =>
           call.result = SentimentByCount(call.args.content)
    /\ call.method = "classify" =>
           /\ call.result.processed_email.sentiment = SentimentByCount(call.args.content)
           /\ call.result.row.sentiment = SentimentByCount(call.args.content)

\* C19 happens: a record whose subject holds a negative keyword and whose body
\* holds one negative and one positive keyword is neutral.
C19_Witness ==
    /\ call.method = "classify"
    /\ call.args.subject = "urgent"
    /\ PositiveIn(Lower(call.args.content)) = 1
    /\ NegativeIn(Lower(call.args.content)) = 1
    /\ call.result.processed_email.sentiment = "neutral"

\* all matches of a text: those of the first pattern, then of the second, then
\* of the third, each from left to right
MatchesInOrder(content) ==
    LET s == Lower(content)
    IN  DeadlineFindAll(s, 1, 1) \o DeadlineFindAll(s, 1, 2) \o DeadlineFindAll(s, 1, 3)

TagOf(text) ==
    IF \E w \in {"urgent", "asap", "immediately"} :
           \E p \in 1..Len(text) : StartsWith(text, p, w)
    THEN "high" ELSE "medium"

\* C20: extract_deadlines returns at most 3 records, those of the first 3
\* matches in the order: matches of the first pattern, of the second, of the
\* third, each from left to right; a record is tagged 'high' iff its text
\* contains 'urgent', 'asap' or 'immediately', else 'medium'.
C20_FirstThreeDeadlines ==
    call.method = "extract_deadlines" =>
        LET all == MatchesInOrder(call.args.content)
            texts == [k \in DOMAIN call.result |-> call.result[k].text]
        IN  /\ Len(call.result) <= 3
            /\ Len(call.result) = Min(3, Len(all))
            /\ \A k \in DOMAIN call.result :
                   /\ call.result[k].text = all[k]
                   /\ call.result[k].priority = TagOf(all[k])
                   /\ call.result[k].priority \in {"high", "medium"}
            /\ call.args.content = "by friday, monday at 10:30, eod today, due 5 march" =>
                   /\ all = <<"friday", "5 march", "monday 10:30", "today">>
                   /\ texts = <<"friday", "5 march", "monday 10:30">>
            /\ call.args.content = "end of asap by monday" =>
                   /\ texts = <<"monday", "asap">>
                   /\ call.result[1].priority = "medium"
                   /\ call.result[2].priority = "high"

\* C20 happens: a text with four matches gave three records, the second
\* match of the first pattern before the match of the second pattern.
C20_Witness ==
    /\ call.method = "extract_deadlines"
    /\ Len(MatchesInOrder(call.args.content)) = 4
    /\ Len(call.result) = 3
    /\ call.result[2].text = "5 march"
    /\ call.result[3].text = "monday 10:30"

\* the distinct stripped non-empty captures of the three action patterns
DistinctActions(content) == Range(ActionMatches(content))

Stripped(text) ==
    /\ text # ""
    /\ Ch(text, 1) \notin Whitespace
    /\ Ch(text, Len(text)) \notin Whitespace

\* what C21 says of a result, given the lowercased body and the distinct
\* captures of the patterns on it
ActionItemsOf(result, body_lower, all) ==
    /\ Len(result) <= 5
    /\ \A j, k \in DOMAIN result : result[j] = result[k] => j = k
    /\ \A k \in DOMAIN result :
           /\ Stripped(result[k])
           /\ result[k] \in all
           /\ Contains(result[k], body_lower)
    /\ Cardinality(all) <= 5 => Range(result) = all
    /\ Len(result) = Min(5, Cardinality(all))

\* C21: extract_action_items returns at most 5 strings, pairwise distinct,
\* each non-empty and without whitespace at either end, each a captured match
\* of an action pattern on the lowercased body; all the distinct matches are
\* returned when there are at most 5.
C21_ActionItems ==
    call.method = "extract_action_items" =>
        /\ ActionItemsOf(call.result, Lower(call.args.content),
                         DistinctActions(call.args.content))
        /\ call.args.content
               = "Please call. must call! todo: Fix it \nplease . finish the report?" =>
               Range(call.result) = {"call", "fix it", "the report"}
        /\ call.args.content = ManyActions =>
               /\ Range(call.result) \subseteq {"a", "b", "c", "d", "e", "f"}
               /\ Len(call.result) = 5

\* C21 happens: a body with six distinct matches gave five of them.
C21_Witness ==
    /\ call.method = "extract_action_items"
    /\ Cardinality(DistinctActions(call.args.content)) = 6
    /\ Len(call.result) = 5
    /\ call.result[1] = "f"

GenericTemplate == "Thank you for your email. I'll review this and get back to you soon."

OwnTemplate == {"urgent", "meeting", "support", "invoice", "project"}

\* the block appended for a non-empty list of action items
ItemsBlock(items) ==
    "\n\nI note the following action items:\n"
        \o "- " \o items[1]
        \o (IF Len(items) >= 2 THEN "\n- " \o items[2] ELSE "")
        \o (IF Len(items) >= 3 THEN "\n- " \o items[3] ELSE "")

\* C22: generate_response_template returns "" when response generation is
\* disabled; when enabled it returns the template of the category (the generic
\* one outside urgent, meeting, support, invoice, project) followed, iff there
\* are action items, by the header and the first min(3, n) items in order.
C22_ResponseTemplate ==
    /\ call.method = "generate_response_template" =>
           IF ~settings.ENABLE_RESPONSE_GENERATION THEN call.result = ""
           ELSE /\ call.result
                      = templates(call.args.category)
                        \o (IF call.args.action_items = <<>> THEN ""
                            ELSE ItemsBlock(call.args.action_items))
                /\ call.args.category \notin OwnTemplate =>
                       templates(call.args.category) = GenericTemplate
                /\ \A other \in OwnTemplate \ {call.args.category} :
                       templates(call.args.category) # templates(other)
                /\ call.args.category \in OwnTemplate =>
                       templates(call.args.category) # GenericTemplate
    /\ (call.method = "classify" /\ ~settings.ENABLE_RESPONSE_GENERATION) =>
           call.result.processed_email.suggested_response = ""

\* C22 happens: with generation enabled, five action items and a category
\* without a template of its own, the generic template is followed by the
\* first three items.
C22_Witness ==
    /\ call.method = "generate_response_template"
    /\ settings.ENABLE_RESPONSE_GENERATION
    /\ call.args.category = "other"
    /\ call.args.action_items = <<"e", "d", "c", "b", "a">>
    /\ call.result = GenericTemplate \o "\n\nI note the following action items:\n- e\n- d\n- c"

\* the steps a call takes from one position of the handler to the next
StepOrder ==
    {<<"idle", "lookup">>, <<"idle", "returned">>,
     <<"lookup", "connect">>, <<"lookup", "returned">>,
     <<"connect", "login">>, <<"connect", "returned">>,
     <<"login", "select">>, <<"login", "returned">>,
     <<"select", "search">>, <<"select", "returned">>,
     <<"search", "fetch">>, <<"search", "commit">>, <<"search", "returned">>,
     <<"fetch", "classify">>, <<"fetch", "fetch">>, <<"fetch", "commit">>,
     <<"classify", "upsert">>, <<"classify", "fetch">>, <<"classify", "commit">>,
     <<"upsert", "fetch">>, <<"upsert", "commit">>,
     <<"commit", "logout">>, <<"commit", "returned">>,
     <<"logout", "returned">>}

\* the messages of the selection that were handled to the end: written or skipped
Handled(c) == Len(written[c]) + Len(skipped[c])

StagesInOrder ==
    \A c \in Calls :
        /\ fetched[c] # <<>> => imap[c] \in {"SELECTED", "LOGOUT"}
        /\ Len(fetched[c]) <= Len(email_ids[c])
        /\ \A k \in DOMAIN fetched[c] : fetched[c][k] = email_ids[c][k]
        /\ pc[c] = "fetch" => Len(fetched[c]) = idx[c] - 1 /\ Handled(c) = idx[c] - 1
        /\ pc[c] \in {"classify", "upsert"} =>
               Len(fetched[c]) = idx[c] /\ Handled(c) = idx[c] - 1
        /\ pc[c] \in {"commit", "logout"} =>
               Len(fetched[c]) = Len(email_ids[c]) /\ Handled(c) = Len(email_ids[c])
        /\ Committed(c) =>
               /\ pc[c] \in {"logout", "returned"}
               /\ Handled(c) = Len(email_ids[c])
        /\ pc[c] = "logout" => Committed(c)
        /\ imap[c] = "LOGOUT" => Committed(c) /\ Returned(c)
        /\ (Returned(c) /\ Succeeded(c)) => Committed(c) /\ imap[c] = "LOGOUT"

\* the session is opened, logged in, selected and searched in this order, and
\* the connection is committed once, on the step from commit to logout
StepsInOrder ==
    \A c \in Calls :
        /\ pc'[c] # pc[c] => <<pc[c], pc'[c]>> \in StepOrder
        /\ imap'[c] # imap[c] =>
               <<imap[c], imap'[c]>> \in {<<"none", "NONAUTH">>, <<"NONAUTH", "AUTH">>,
                                         <<"AUTH", "SELECTED">>, <<"SELECTED", "LOGOUT">>}
        /\ (Committed(c)' /\ ~Committed(c)) => pc[c] = "commit" /\ pc'[c] = "logout"
        /\ Committed(c) => Committed(c)' /\ written'[c] = written[c]
        /\ written'[c] # written[c] => pc[c] = "upsert"
        /\ fetched'[c] # fetched[c] => pc[c] = "fetch"

WrittenBy(c, category, priority) ==
    {EmailOut(LastWrite(written[c], written[c][k].id)) :
        k \in {j \in DOMAIN written[c] :
                  /\ category # "" => LastWrite(written[c], written[c][j].id).category = category
                  /\ priority # 0 => LastWrite(written[c], written[c][j].id).priority >= priority}}

\* a read of GET /api/emails that is answered on this step sees none of the
\* rows of the running call before its commit and all of them after it
ReadsAllOrNothing ==
    (call = NoCall /\ call'.method = "get_processed_emails" /\ call'.result.status = 200) =>
        Range(call'.result.emails)
            = IF Committed(1)
              THEN WrittenBy(1, call'.args.category, call'.args.priority)
              ELSE {}

\* what a read has returned is none of the rows the call writes, or all of them
SeenAllOrNothing ==
    (call.method = "get_processed_emails" /\ call.result.status = 200) =>
        \/ call.result.emails = <<>>
        \/ /\ Committed(1)
           /\ Range(call.result.emails)
                  = WrittenBy(1, call.args.category, call.args.priority)

\* each statement of the dashboard counted none of the rows the call writes,
\* or all of them
CountedAllOrNothing ==
    call.method = "get_dashboard_stats" =>
        LET n == Cardinality(WrittenBy(1, "", 0))
            counted == {call.result.total_emails, call.result.recent_activity}
        IN  /\ counted \subseteq {0, n}
            /\ call.result.categories \in {<<>>, CountBy(WrittenBy(1, "", 0), "category")}
            /\ call.result.priorities \in {<<>>, CountBy(WrittenBy(1, "", 0), "priority")}
            /\ (counted # {0} \/ call.result.categories # <<>>
                    \/ call.result.priorities # <<>>) => Committed(1)

\* C24: a reader beside an ingestion call sees none of the call's rows before
\* the commit that follows the loop and all of them after it, never some of
\* them only.
C24_ReadersSeeAllOrNothing ==
    []SeenAllOrNothing /\ []CountedAllOrNothing /\ [][ReadsAllOrNothing]_vars

\* C24 happens: a read answered between the commit and the logout of a call
\* that wrote two rows returned both.
C24_Witness ==
    /\ call.method = "get_processed_emails"
    /\ call.args = [category |-> "", priority |-> 0]
    /\ call.result.status = 200
    /\ Len(call.result.emails) = 2
    /\ Len(written[1]) = 2
    /\ pc[1] = "logout"

\* the sum of the counts of a dict
RECURSIVE SumOf(_)
SumOf(counts) ==
    IF DOMAIN counts = {} THEN 0
    ELSE LET v == CHOOSE x \in DOMAIN counts : TRUE
         IN  counts[v] + SumOf([x \in DOMAIN counts \ {v} |-> counts[x]])

\* C30: every response of get_dashboard_stats has total_emails equal to the
\* sum of the counts by category and to the sum of the counts by priority, and
\* recent_activity at most total_emails.
C30_DashboardConsistent ==
    (/\ call.method = "get_dashboard_stats"
     /\ call.result.stage = "returned"
     /\ call.result.status = 200)
    => /\ call.result.total_emails = SumOf(call.result.categories)
       /\ call.result.total_emails = SumOf(call.result.priorities)
       /\ call.result.recent_activity <= call.result.total_emails

\* C25: the record returned for a message of cut body b has content b when b
\* has at most 500 characters and the first 500 characters of b followed by
\* '...' otherwise; the row written under the same id has content b; the two
\* agree on id, subject, sender, category, priority and sentiment.
C25_PreviewAndRow ==
    \A c \in Calls :
        /\ Len(processed_emails[c]) = Len(written[c])
        /\ \A k \in DOMAIN written[c] :
               LET b == CutTo(RawBody(mailbox[NotSkipped(c)[k]]),
                              settings.MAX_EMAIL_CONTENT_LENGTH)
                   p == processed_emails[c][k]
                   r == written[c][k]
               IN  /\ r.content = b
                   /\ p.content = IF Len(b) <= 500 THEN b ELSE SubSeq(b, 1, 500) \o "..."
                   /\ Len(p.content) <= 503
                   /\ p.id = r.id /\ p.subject = r.subject /\ p.sender = r.sender
                   /\ p.category = r.category /\ p.priority = r.priority
                   /\ p.sentiment = r.sentiment
        /\ (Returned(c) /\ Succeeded(c)) => response[c].emails = processed_emails[c]

\* C25 happens: a call returned a record of 503 characters of content for a
\* message stored with its 501 characters.
C25_Witness ==
    \E c \in Calls : \E k \in DOMAIN written[c] :
        /\ Returned(c) /\ Succeeded(c)
        /\ Len(written[c][k].content) = 501
        /\ Len(response[c].emails[k].content) = 503
        /\ written[c][k] \in emails

\* the payload of the first text/plain part of a list of parts, "" if none
FirstPlainText(parts) ==
    IF \A k \in DOMAIN parts : parts[k].content_type # "text/plain" THEN ""
    ELSE decode(parts[FirstOf({k \in DOMAIN parts : parts[k].content_type = "text/plain"})].payload)

\* C26: the body of a multipart message is the payload of its first
\* text/plain part ("" when it has none), a missing Subject reads 'No Subject'
\* and a missing From 'Unknown Sender', and no message is skipped for bytes
\* that cannot be decoded: a skip comes from the fetch or from the store only.
C26_NormalizationNeverSkips ==
    \A c \in Calls :
        /\ pc[c] = "classify" =>
               LET msg == mailbox[email_ids[c][idx[c]]]
               IN  /\ msg.multipart =>
                          cur[c].content = CutTo(FirstPlainText(msg.parts),
                                                 settings.MAX_EMAIL_CONTENT_LENGTH)
                   /\ msg.Subject = NoHeader =>
                          cur[c].subject = CutTo("No Subject", settings.MAX_SUBJECT_LENGTH)
                   /\ msg.From = NoHeader => cur[c].sender = "Unknown Sender"
        /\ \A j \in DOMAIN skipped[c] : skipped[c][j].stage \in {"fetch", "locked", "store"}

IdsOf(records) == {records[k].id : k \in DOMAIN records}

\* two of the messages a call processed have one fingerprint
SharedFingerprint(c) ==
    \E j, k \in DOMAIN NotSkipped(c) :
        j < k /\ FingerprintOf(NotSkipped(c)[j]) = FingerprintOf(NotSkipped(c)[k])

LoggedOut(c) == imap[c] \in {"none", "LOGOUT"}

\* the store connection of a call is closed or was never opened
StoreClosed(c) == conn[c] \in {"none", "closed"}

\* C28: a call that has returned, with success or with any failure, has
\* logged out the mail-server session it opened and has closed the store
\* connection it opened.
C28_SessionsReleased ==
    \A c \in Calls : Returned(c) => LoggedOut(c) /\ StoreClosed(c)

\* the three values line 956 takes from a record
TripleOf(row) ==
    [sender |-> row.sender, subject |-> row.subject, prefix |-> SliceTo(row.content, 100)]

\* C29: with a digest that is injective on its input string, two records whose
\* triples (sender, cut subject, first 100 characters of the body) differ
\* never have the same id, so the row the store holds for an id has the
\* triple of every record the call wrote under that id.
C29_DistinctTriplesDistinctIds ==
    \A c \in Calls :
        /\ \A j, k \in DOMAIN written[c] :
               TripleOf(written[c][j]) # TripleOf(written[c][k])
               => written[c][j].id # written[c][k].id
        /\ Committed(c) =>
               \A k \in DOMAIN written[c] :
                   \A r \in emails :
                       r.id = written[c][k].id => TripleOf(r) = TripleOf(written[c][k])

====
